---- MODULE Spec2Model ----
(***************************************************************************)
(* tyedev: the devcontainer index (src/src/registry.rs) and the `init`     *)
(* command (src/src/init.rs).                                              *)
(*                                                                         *)
(* Four specifications share this module:                                  *)
(*   SpecParse   read_devcontainer_index on tolerated/malformed documents  *)
(*   SpecQuery   DevcontainerIndex::iter_* / get_* on a parsed index       *)
(*   SpecOption  DevOption::configured_default                             *)
(*   SpecInit    the option/feature resolution part of init()              *)
(* Variables that a specification does not use stay at Idle.               *)
(***************************************************************************)
EXTENDS Integers, Sequences, FiniteSets, TLC

VARIABLES
    json_value,     \* registry.rs:467  the parsed serde_json::Value of the index file
    read_result,    \* registry.rs:463  Result<DevcontainerIndex, Error> of read_devcontainer_index
    query,          \* the last DevcontainerIndex method called, with its argument
    query_out,      \* what that method returned
    dev_option,     \* registry.rs:179  a DevOption
    option_out,     \* registry.rs:213  what configured_default returned for it
    args,           \* init.rs:20   InitArgs
    pc,             \* init.rs:683  the position of init, and its loop counter
    template_builder, \* init.rs:716  the TemplateBuilder of init
    prompts,        \* the number of inquire prompts shown so far
    call,           \* the last method init called, its argument and its outcome
    init_result,    \* init.rs:683  what init returned
    apply_args,     \* init.rs:449  attempt_single_file and workspace
    disk,           \* the directories and the files of the file system
    applied,        \* init.rs:474  what the loop did for each entry it has taken
    apply_result    \* init.rs:449  what apply_context_and_features returned

index_vars == <<json_value, read_result, query, query_out>>
option_vars == <<dev_option, option_out>>
init_vars == <<args, pc, template_builder, prompts, call, init_result>>
apply_vars == <<apply_args, disk, applied, apply_result>>
vars == <<json_value, read_result, query, query_out, dev_option, option_out,
          args, pc, template_builder, prompts, call, init_result,
          apply_args, disk, applied, apply_result>>

Idle == [idle |-> TRUE]

(***************************************************************************)
(* Bounds of the model.                                                    *)
(***************************************************************************)
\* the size of an index document: the number of its collection elements, plus
\* the number of feature and template elements in them, plus the number of
\* structural defects (a collection element that is not an object, a
\* sourceInformation that is absent or malformed, a `features` or `templates`
\* that is absent or not an array)
MaxDocSize == 5
\* the size of an index document whose index is queried: the number of its
\* collection elements plus the number of feature and template elements
MaxQuerySize == 4
\* the entries of an `enum` or `proposals` list
MaxProposals == 2
\* the references given with --include-features
MaxIncludeFeatures == 2
\* the features added at the "Add a feature?" prompt
MaxAddFeatures == 1

(***************************************************************************)
(* Option<T>                                                               *)
(***************************************************************************)
None == [some |-> FALSE]
Some(x) == [some |-> TRUE, val |-> x]

(***************************************************************************)
(* serde_json::Value.  A value is [t |-> tag, v |-> payload]; an object's  *)
(* payload is a function from its keys, an array's payload a sequence.     *)
(* A string's payload is a TLA+ string, except `maintainer`, whose payload *)
(* is the sequence of its characters (it is searched and lower-cased).     *)
(***************************************************************************)
JStr(s) == [t |-> "string", v |-> s]
JBool(b) == [t |-> "bool", v |-> b]
JNum(n) == [t |-> "number", v |-> n]
JNull == [t |-> "null", v |-> "null"]
JArr(s) == [t |-> "array", v |-> s]
JObj(f) == [t |-> "object", v |-> f]

\* Value::get(key): only an object that has the key yields a value
value_get(value, key) ==
    IF value.t = "object" /\ key \in DOMAIN value.v THEN Some(value.v[key]) ELSE None

\* Value::as_array
as_array(value) == IF value.t = "array" THEN Some(value.v) ELSE None

\* Value::as_object
as_object(value) == IF value.t = "object" THEN Some(value.v) ELSE None

\* a required field of type String
ReqString(obj, key) == key \in DOMAIN obj /\ obj[key].t = "string"

\* an Option<T> field is None when the key is absent or its value is null
FieldIsNone(obj, key) == key \notin DOMAIN obj \/ obj[key].t = "null"

IsStringArray(value) ==
    value.t = "array" /\ \A i \in DOMAIN value.v : value.v[i].t = "string"

StringArray(value) == [i \in DOMAIN value.v |-> value.v[i].v]

(***************************************************************************)
(* serde_json::from_value::<T>: the typed model.  A decoder is a pair      *)
(* Is<T>(value) (from_value is Ok) and To<T>(value) (the decoded T).       *)
(* Descriptive fields that no operation reads (description, keywords,      *)
(* documentationURL, ...) are left out of the typed records.               *)
(***************************************************************************)
SourceInformationKeys == {"name", "maintainer", "contact", "repository", "ociReference"}

IsSourceInformation(value) ==
    /\ value.t = "object"
    /\ \A k \in SourceInformationKeys : ReqString(value.v, k)

ToSourceInformation(value) ==
    [name |-> value.v["name"].v,
     maintainer |-> value.v["maintainer"].v,
     contact |-> value.v["contact"].v,
     repository |-> value.v["repository"].v,
     oci_reference |-> value.v["ociReference"].v]

\* BooleanDefaultType (untagged): a string or a bool
IsBooleanDefaultType(value) == value.t \in {"string", "bool"}

ToBooleanDefaultType(value) ==
    IF value.t = "string" THEN [t |-> "String", v |-> value.v]
    ELSE [t |-> "Boolean", v |-> value.v]

\* StringDevOption (untagged): EnumValues is tried first, then Proposals
IsEnumValues(obj) ==
    /\ ReqString(obj, "default")
    /\ "enum" \in DOMAIN obj /\ IsStringArray(obj["enum"])

IsProposals(obj) ==
    /\ (FieldIsNone(obj, "default") \/ obj["default"].t = "string")
    /\ (FieldIsNone(obj, "proposals") \/ IsStringArray(obj["proposals"]))

\* DevOption (tag = "type": "boolean" | "string")
IsDevOption(value) ==
    /\ value.t = "object"
    /\ ReqString(value.v, "type")
    /\ \/ /\ value.v["type"].v = "boolean"
          /\ "default" \in DOMAIN value.v
          /\ IsBooleanDefaultType(value.v["default"])
       \/ /\ value.v["type"].v = "string"
          /\ (IsEnumValues(value.v) \/ IsProposals(value.v))

ToDevOption(value) ==
    IF value.v["type"].v = "boolean"
    THEN [kind |-> "Boolean", default |-> ToBooleanDefaultType(value.v["default"])]
    ELSE IF IsEnumValues(value.v)
    THEN [kind |-> "EnumValues",
          default |-> value.v["default"].v,
          enum |-> StringArray(value.v["enum"])]
    ELSE [kind |-> "Proposals",
          default |-> IF FieldIsNone(value.v, "default") THEN None
                      ELSE Some(value.v["default"].v),
          proposals |-> IF FieldIsNone(value.v, "proposals") THEN None
                        ELSE Some(StringArray(value.v["proposals"]))]

\* HashMap<String, DevOption>
IsOptionsMap(value) ==
    value.t = "object" /\ \A k \in DOMAIN value.v : IsDevOption(value.v[k])

ToOptionsMap(value) == [k \in DOMAIN value.v |-> ToDevOption(value.v[k])]

IsFeature(value) ==
    /\ value.t = "object"
    /\ \A k \in {"id", "version", "name", "owner", "majorVersion"} : ReqString(value.v, k)
    /\ (FieldIsNone(value.v, "deprecated") \/ value.v["deprecated"].t = "bool")
    /\ (FieldIsNone(value.v, "options") \/ IsOptionsMap(value.v["options"]))

ToFeature(value) ==
    [id |-> value.v["id"].v,
     version |-> value.v["version"].v,
     name |-> value.v["name"].v,
     owner |-> value.v["owner"].v,
     major_version |-> value.v["majorVersion"].v,
     deprecated |-> IF FieldIsNone(value.v, "deprecated") THEN None
                    ELSE Some(value.v["deprecated"].v),
     options |-> IF FieldIsNone(value.v, "options") THEN None
                 ELSE Some(ToOptionsMap(value.v["options"]))]

\* TemplateType (rename_all = "camelCase")
TemplateTypeNames == {"image", "dockerfile", "dockerCompose"}

IsTemplate(value) ==
    /\ value.t = "object"
    /\ \A k \in {"id", "version", "name", "owner"} : ReqString(value.v, k)
    /\ \/ FieldIsNone(value.v, "type")
       \/ value.v["type"].t = "string" /\ value.v["type"].v \in TemplateTypeNames
    /\ (FieldIsNone(value.v, "fileCount") \/ value.v["fileCount"].t = "number")
    /\ (FieldIsNone(value.v, "options") \/ IsOptionsMap(value.v["options"]))

ToTemplate(value) ==
    [id |-> value.v["id"].v,
     version |-> value.v["version"].v,
     name |-> value.v["name"].v,
     owner |-> value.v["owner"].v,
     type |-> IF FieldIsNone(value.v, "type") THEN None ELSE Some(value.v["type"].v),
     file_count |-> IF FieldIsNone(value.v, "fileCount") THEN None
                    ELSE Some(value.v["fileCount"].v),
     options |-> IF FieldIsNone(value.v, "options") THEN None
                 ELSE Some(ToOptionsMap(value.v["options"]))]

(***************************************************************************)
(* read_devcontainer_index                                                 *)
(***************************************************************************)
\* a decode that gives up at the first element that is not a Feature
RECURSIVE DecodeFeaturesUntilError(_)
DecodeFeaturesUntilError(arr) ==
    IF arr = <<>> \/ ~IsFeature(Head(arr)) THEN <<>>
    ELSE <<ToFeature(Head(arr))>> \o DecodeFeaturesUntilError(Tail(arr))

\* features.iter().flat_map(|value| from_value::<Feature>(value) -> Some / None).collect()
RECURSIVE DecodeFeatures(_)
DecodeFeatures(arr) ==
    IF arr = <<>> THEN <<>>
    ELSE (IF IsFeature(Head(arr)) THEN <<ToFeature(Head(arr))>> ELSE <<>>)
         \o DecodeFeatures(Tail(arr))

\* templates.iter().flat_map(|value| from_value::<Template>(value) -> Some / None).collect()
RECURSIVE DecodeTemplates(_)
DecodeTemplates(arr) ==
    IF arr = <<>> THEN <<>>
    ELSE (IF IsTemplate(Head(arr)) THEN <<ToTemplate(Head(arr))>> ELSE <<>>)
         \o DecodeTemplates(Tail(arr))

\* a closure that takes a `features` or `templates` that is not an array for
\* an empty list instead of skipping the collection
ParseCollectionLenient(value) ==
    LET si_value == value_get(value, "sourceInformation")
        si == IF si_value.some /\ IsSourceInformation(si_value.val)
              THEN Some(ToSourceInformation(si_value.val)) ELSE None
        f_value == value_get(value, "features")
        fs == IF f_value.some THEN as_array(f_value.val) ELSE None
        t_value == value_get(value, "templates")
        ts == IF t_value.some THEN as_array(t_value.val) ELSE None
    IN  IF ~si.some THEN None
        ELSE Some([source_information |-> si.val,
                   features |-> IF fs.some THEN DecodeFeatures(fs.val) ELSE <<>>,
                   templates |-> IF ts.some THEN DecodeTemplates(ts.val) ELSE <<>>])

\* the closure given to filter_map: one element of `collections`
ParseCollection(value) ==
    LET si_value == value_get(value, "sourceInformation")
        si == IF si_value.some /\ IsSourceInformation(si_value.val)
              THEN Some(ToSourceInformation(si_value.val)) ELSE None
        f_value == value_get(value, "features")
        fs == IF f_value.some THEN as_array(f_value.val) ELSE None
        t_value == value_get(value, "templates")
        ts == IF t_value.some THEN as_array(t_value.val) ELSE None
    IN  IF ~si.some THEN None
        ELSE IF ~fs.some THEN None
        ELSE IF ~ts.some THEN None
        ELSE Some([source_information |-> si.val,
                   features |-> DecodeFeatures(fs.val),
                   templates |-> DecodeTemplates(ts.val)])

\* a loop that ends at the first collection element it has to skip
RECURSIVE ParseCollectionsUntilSkip(_)
ParseCollectionsUntilSkip(arr) ==
    IF arr = <<>> \/ ~ParseCollection(Head(arr)).some THEN <<>>
    ELSE <<ParseCollection(Head(arr)).val>> \o ParseCollectionsUntilSkip(Tail(arr))

\* arr.iter().filter_map(closure).collect()
RECURSIVE ParseCollections(_)
ParseCollections(arr) ==
    IF arr = <<>> THEN <<>>
    ELSE LET c == ParseCollection(Head(arr))
         IN  (IF c.some THEN <<c.val>> ELSE <<>>) \o ParseCollections(Tail(arr))

Ok(x) == [ok |-> TRUE, val |-> x]
Err(kind) == [ok |-> FALSE, kind |-> kind]

\* a reader that takes a document of the wrong shape for an empty index
read_devcontainer_index_or_default(value) ==
    LET obj_map == as_object(value)
        collections_value == IF obj_map.some THEN value_get(value, "collections") ELSE None
        arr == IF collections_value.some THEN as_array(collections_value.val) ELSE None
    IN  Ok([collections |-> IF arr.some THEN ParseCollections(arr.val) ELSE <<>>])

read_devcontainer_index(value) ==
    LET obj_map == as_object(value)
        collections_value == IF obj_map.some THEN value_get(value, "collections") ELSE None
        arr == IF collections_value.some THEN as_array(collections_value.val) ELSE None
    IN  IF arr.some
        THEN Ok([collections |-> ParseCollections(arr.val)])
        ELSE Err("InvalidData")

(***************************************************************************)
(* Index documents.  A document is drawn from the documents of size at     *)
(* most MaxDocSize.  The i-th collection                                   *)
(* element, when it has a sourceInformation, carries the ociReference      *)
(* RefOf(i), so that a collection of the result names its input position.  *)
(***************************************************************************)
RECURSIVE SeqsOfLen(_, _)
SeqsOfLen(S, n) ==
    IF n = 0 THEN {<<>>}
    ELSE {<<x>> \o r : x \in S, r \in SeqsOfLen(S, n - 1)}

SeqsUpTo(S, n) == UNION {SeqsOfLen(S, k) : k \in 0..n}

\* the field is not in the object
Absent == [t |-> "absent", v |-> "absent"]

Field(key, choice) == IF choice = Absent THEN <<>> ELSE (key :> choice)

RefOf(i) == "ghcr.io/owner/c" \o ToString(i)

\* the maintainer texts of the documents, by name, as sequences of characters
MaintainerText ==
    [acme |-> <<"A", "c", "m", "e">>,
     \* holds "deprecated" in mixed case, not at the start
     old |-> <<"O", "l", "d", " ", "(", "D", "e", "p", "r", "e", "c", "A", "T", "E", "D", ")">>,
     \* holds only a prefix of "deprecated"
     near |-> <<"d", "e", "p", "r", "e", "c", "a", "t", "e">>]

SourceInformationJson(maintainer, i) ==
    JObj([name |-> JStr("Collection"), maintainer |-> JStr(MaintainerText[maintainer]),
          contact |-> JStr("https://example.test/issues"),
          repository |-> JStr("https://example.test/repo"),
          ociReference |-> JStr(RefOf(i))])

\* a sourceInformation that does not satisfy the schema: no ociReference
MalformedSourceInformationJson ==
    JObj([name |-> JStr("Collection"), maintainer |-> JStr(MaintainerText["acme"]),
          contact |-> JStr("https://example.test/issues"),
          repository |-> JStr("https://example.test/repo")])

FeatureJson(id, major, name, deprecated) ==
    JObj(Field("id", id) @@ Field("majorVersion", major) @@ Field("deprecated", deprecated)
         @@ [version |-> JStr("1.0.0"), name |-> JStr(name), owner |-> JStr("owner")])

TemplateJson(id, name, type) ==
    JObj(Field("id", id) @@ Field("type", type)
         @@ [version |-> JStr("1.0.0"), name |-> JStr(name), owner |-> JStr("owner")])

\* The feature and template elements that documents are built from, by name.
EntryJson ==
    [fA |-> FeatureJson(JStr("a"), JStr("1"), "A", Absent),
     fB |-> FeatureJson(JStr("b"), JStr("2"), "B", JBool(TRUE)),
     \* no majorVersion: not a Feature
     fBad |-> FeatureJson(JStr("c"), Absent, "C", Absent),
     tT |-> TemplateJson(JStr("t"), "T", JStr("image")),
     \* unknown `type`: not a Template
     tBad |-> TemplateJson(JStr("w"), "W", JStr("vm")),
     \* same id as fA, deprecated
     qA2 |-> FeatureJson(JStr("a"), JStr("2"), "A2", JBool(TRUE)),
     qB |-> FeatureJson(JStr("b"), JStr("1"), "B", JBool(FALSE)),
     \* same id as tT, with "deprecated" in its name
     qT2 |-> TemplateJson(JStr("t"), "deprecated T", JStr("dockerfile"))]

\* feature and template elements of the documents of SpecParse
ParseFeaturePool == {"fA", "fB", "fBad"}
ParseTemplatePool == {"tT", "tBad"}
ParseMaintainers == {"acme"}

\* feature and template elements of the documents of SpecQuery
QueryFeaturePool == {"fA", "qA2", "qB"}
QueryTemplatePool == {"tT", "qT2"}
QueryMaintainers == {"acme", "old", "near"}

\* what a collection element has under `features` (or `templates`): nothing
\* ("absent"), a value that is not an array ("null"), or an array of entries
FieldShapes(Pool, defect, k) ==
    IF defect = 1 THEN {[kind |-> c, items |-> <<>>] : c \in {"absent", "null"}}
    ELSE {[kind |-> "array", items |-> q] : q \in SeqsUpTo(Pool, k)}

FieldJson(shape) ==
    CASE shape.kind = "absent" -> Absent
      [] shape.kind = "null" -> JNull
      [] OTHER -> JArr([i \in DOMAIN shape.items |-> EntryJson[shape.items[i]]])

\* a collection element that is not an object at all
NotAnObject ==
    [si |-> "none", features |-> [kind |-> "absent", items |-> <<>>],
     templates |-> [kind |-> "absent", items |-> <<>>]]

\* the structural defects of a collection element: a sourceInformation that
\* is absent or malformed, a `features` or `templates` that is not an array,
\* an element that is not an object
DefectChoices(d) == {x \in (0..1) \X (0..1) \X (0..1) : x[1] + x[2] + x[3] = d}

\* the shapes of a collection element of the given size, where the size is
\* 1 + the number of its entries + the number of its structural defects
\* (at most maxd of them)
ElemShapes(Maint, FPool, TPool, size, maxd) ==
    UNION {{e \in UNION {[si : IF m[1] = 1 THEN {"absent", "malformed"} ELSE Maint,
                          features : FieldShapes(FPool, m[2], size - 1 - d),
                          templates : FieldShapes(TPool, m[3], size - 1 - d)] :
                         m \in DefectChoices(d)} :
               1 + d + Len(e.features.items) + Len(e.templates.items) = size} :
           d \in {x \in 0..(size - 1) : x <= maxd}}
    \cup (IF size = 2 /\ maxd > 0 THEN {NotAnObject} ELSE {})

\* the sequences of element shapes of total size at most b
RECURSIVE ShapeSeqs(_, _, _, _, _)
ShapeSeqs(Maint, FPool, TPool, b, maxd) ==
    {<<>>} \cup UNION {{<<e>> \o r : e \in ElemShapes(Maint, FPool, TPool, size, maxd),
                                     r \in ShapeSeqs(Maint, FPool, TPool, b - size, maxd)} :
                       size \in 1..b}

CollectionJson(e, i) ==
    IF e = NotAnObject THEN JStr("collection")
    ELSE JObj(Field("sourceInformation",
                    CASE e.si = "absent" -> Absent
                      [] e.si = "malformed" -> MalformedSourceInformationJson
                      [] OTHER -> SourceInformationJson(e.si, i))
              @@ Field("features", FieldJson(e.features))
              @@ Field("templates", FieldJson(e.templates)))

IndexJson(shapes) ==
    JObj([collections |-> JArr([i \in DOMAIN shapes |-> CollectionJson(shapes[i], i)])])

\* documents whose top level is not `{"collections": [...]}`
BadShapeDocs ==
    {JStr("index"), JArr(<<>>), JNull, JObj(<<>>),
     JObj([collections |-> JNull]), JObj([collections |-> JObj(<<>>)]),
     JObj([collection |-> JArr(<<>>)])}

(***************************************************************************)
(* SpecParse: read_devcontainer_index applied to a document of ParseDocs.  *)
(***************************************************************************)
\* the variables of the other specifications
OptionIdle == dev_option = Idle /\ option_out = Idle
InitIdle ==
    /\ args = Idle /\ pc = Idle /\ template_builder = Idle
    /\ prompts = 0 /\ call = Idle /\ init_result = Idle
IndexIdle == json_value = Idle /\ read_result = Idle /\ query = Idle /\ query_out = Idle
ApplyIdle == apply_args = Idle /\ disk = Idle /\ applied = <<>> /\ apply_result = Idle

InitParse ==
    /\ OptionIdle /\ InitIdle /\ ApplyIdle
    /\ \/ json_value \in BadShapeDocs
       \/ \E q \in ShapeSeqs(ParseMaintainers, ParseFeaturePool, ParseTemplatePool,
                            MaxDocSize, MaxDocSize) :
             json_value = IndexJson(q)
    /\ read_result = Idle
    /\ query = Idle
    /\ query_out = Idle

\* registry.rs:463-563
ReadIndex ==
    /\ read_result = Idle
    /\ read_result' = read_devcontainer_index(json_value)
    /\ UNCHANGED <<json_value, query, query_out, option_vars, init_vars, apply_vars>>

NextParse == ReadIndex

SpecParse == InitParse /\ [][NextParse]_vars

(***************************************************************************)
(* Properties of read_devcontainer_index (SpecParse).                      *)
(***************************************************************************)
HasIndexShape(doc) ==
    doc.t = "object" /\ "collections" \in DOMAIN doc.v /\ doc.v["collections"].t = "array"

\* the elements of `collections` of the document that was read
Elems == json_value.v["collections"].v

\* the collections of the index that was returned
Parsed == read_result.val.collections

ElemHasSourceInformation(e) ==
    /\ e.t = "object"
    /\ "sourceInformation" \in DOMAIN e.v
    /\ IsSourceInformation(e.v["sourceInformation"])

ElemHasArray(e, key) == e.t = "object" /\ key \in DOMAIN e.v /\ e.v[key].t = "array"

ElemIsWellFormed(e) ==
    ElemHasSourceInformation(e) /\ ElemHasArray(e, "features") /\ ElemHasArray(e, "templates")

ElemRef(e) == e.v["sourceInformation"].v["ociReference"].v

\* the elements of an array that satisfy a schema, decoded, in input order
ValidFeatures(e) ==
    LET q == SelectSeq(e.v["features"].v, IsFeature)
    IN  [i \in DOMAIN q |-> ToFeature(q[i])]

ValidTemplates(e) ==
    LET q == SelectSeq(e.v["templates"].v, IsTemplate)
    IN  [i \in DOMAIN q |-> ToTemplate(q[i])]

FeatureElems(e) == e.v["features"].v
TemplateElems(e) == e.v["templates"].v

\* C1: a document whose N collection elements all have a valid
\* sourceInformation and array-valued `features` and `templates` yields exactly
\* N collections in input order, and each collection's features (templates)
\* are exactly the elements of its input array that satisfy the Feature
\* (Template) schema, in input order: a malformed element removes only itself.
C1_MalformedEntriesSkippedAlone ==
    (/\ read_result # Idle
     /\ HasIndexShape(json_value)
     /\ \A i \in DOMAIN Elems : ElemIsWellFormed(Elems[i]))
    => /\ read_result.ok
       /\ Len(Parsed) = Len(Elems)
       /\ \A i \in DOMAIN Elems :
            /\ Parsed[i].source_information.oci_reference = ElemRef(Elems[i])
            /\ Parsed[i].features = ValidFeatures(Elems[i])
            /\ Parsed[i].templates = ValidTemplates(Elems[i])

\* two well-formed collections were read; one has a malformed feature next to
\* a valid one, one has a malformed template
C1_Witness ==
    /\ read_result # Idle
    /\ HasIndexShape(json_value)
    /\ Len(Elems) >= 2
    /\ \A i \in DOMAIN Elems : ElemIsWellFormed(Elems[i])
    /\ \E i \in DOMAIN Elems :
         /\ \E k \in DOMAIN FeatureElems(Elems[i]) : ~IsFeature(FeatureElems(Elems[i])[k])
         /\ \E k \in DOMAIN FeatureElems(Elems[i]) : IsFeature(FeatureElems(Elems[i])[k])
    /\ \E i \in DOMAIN Elems :
         \E k \in DOMAIN TemplateElems(Elems[i]) : ~IsTemplate(TemplateElems(Elems[i])[k])
    /\ read_result.ok
    /\ Len(Parsed) = Len(Elems)

\* the collection of the result that came from the i-th element, if any
ParsedFrom(i) == {j \in DOMAIN Parsed : Parsed[j].source_information.oci_reference = RefOf(i)}

\* C2 as stated: once the sourceInformation of a collection element has
\* parsed, the collection is in the index whatever the shape of its `features`
\* and `templates` fields.
C2_RetainedWhateverTheShape ==
    (read_result # Idle /\ HasIndexShape(json_value))
    => \A i \in DOMAIN Elems :
         ElemHasSourceInformation(Elems[i]) => ParsedFrom(i) # {}

\* C2 amended: once the sourceInformation of a collection element has parsed,
\* the collection is in the index (once, with its ociReference) exactly when
\* `features` and `templates` are both arrays, whatever the content of the
\* arrays; it then has every valid feature and every valid template of its
\* element, so a malformed feature removes no template and a malformed
\* template removes no feature.  When one of the two fields is absent or not
\* an array the whole collection is skipped.
C2_RetainedIffBothArrays ==
    (read_result # Idle /\ HasIndexShape(json_value))
    => \A i \in DOMAIN Elems :
         ElemHasSourceInformation(Elems[i]) =>
           IF ElemHasArray(Elems[i], "features") /\ ElemHasArray(Elems[i], "templates")
           THEN /\ Cardinality(ParsedFrom(i)) = 1
                /\ \A j \in ParsedFrom(i) :
                     /\ Parsed[j].features = ValidFeatures(Elems[i])
                     /\ Parsed[j].templates = ValidTemplates(Elems[i])
           ELSE ParsedFrom(i) = {}

\* an element with a valid sourceInformation, a malformed feature and a valid
\* template was kept, and one with a valid sourceInformation and a `features`
\* that is not an array was skipped
C2_Witness ==
    /\ read_result # Idle
    /\ HasIndexShape(json_value)
    /\ \E i \in DOMAIN Elems :
         /\ ElemIsWellFormed(Elems[i])
         /\ \E k \in DOMAIN FeatureElems(Elems[i]) : ~IsFeature(FeatureElems(Elems[i])[k])
         /\ \E k \in DOMAIN TemplateElems(Elems[i]) : IsTemplate(TemplateElems(Elems[i])[k])
         /\ ParsedFrom(i) # {}
    /\ \E i \in DOMAIN Elems :
         /\ ElemHasSourceInformation(Elems[i])
         /\ ~ElemHasArray(Elems[i], "features")
         /\ ParsedFrom(i) = {}

\* C3: read_devcontainer_index fails, with the kind io::ErrorKind::InvalidData
\* ("Unexpected json shape", the InvalidFormat of the error taxonomy) and
\* without an index, exactly when the top-level value is not an object, has no
\* `collections` key or has a `collections` that is not an array; any other
\* document yields an index, whatever its collections, features and templates.
C3_FailsExactlyOnBadShape ==
    read_result # Idle
    => IF HasIndexShape(json_value)
       THEN read_result.ok /\ DOMAIN read_result.val = {"collections"}
       ELSE read_result = Err("InvalidData")

\* an object whose `collections` is not an array was rejected
C3_Witness ==
    /\ read_result # Idle
    /\ json_value.t = "object"
    /\ "collections" \in DOMAIN json_value.v
    /\ json_value.v["collections"].t # "array"
    /\ ~read_result.ok

\* C4: a collection element whose sourceInformation is missing or does not
\* parse contributes nothing to the index, and the skip affects no other
\* element: the index holds exactly the elements that are well-formed, one
\* collection each, in their input order, with their own valid features and
\* templates.
C4_BadSourceInformationSkipsOneCollection ==
    (read_result # Idle /\ HasIndexShape(json_value))
    => LET kept == SelectSeq(Elems, ElemIsWellFormed)
       IN  /\ Len(Parsed) = Len(kept)
           /\ \A j \in DOMAIN kept :
                /\ Parsed[j].source_information.oci_reference = ElemRef(kept[j])
                /\ Len(Parsed[j].features) = Len(ValidFeatures(kept[j]))
                /\ Len(Parsed[j].templates) = Len(ValidTemplates(kept[j]))

\* an element without a usable sourceInformation stood between two well-formed
\* elements, and exactly those two are in the index
C4_Witness ==
    /\ read_result # Idle
    /\ HasIndexShape(json_value)
    /\ \E i \in DOMAIN Elems :
         /\ ~ElemHasSourceInformation(Elems[i])
         /\ \E h \in 1..(i - 1) : ElemIsWellFormed(Elems[h])
         /\ \E k \in (i + 1)..Len(Elems) : ElemIsWellFormed(Elems[k])
    /\ Len(Parsed) = 2

(***************************************************************************)
(* DevcontainerIndex: iter_features, get_feature, iter_templates,          *)
(* get_template.  An iterator is modelled by the sequence it yields.       *)
(***************************************************************************)
\* str::to_lowercase, on the ASCII letters
LowerCase ==
    [A |-> "a", B |-> "b", C |-> "c", D |-> "d", E |-> "e", F |-> "f", G |-> "g",
     H |-> "h", I |-> "i", J |-> "j", K |-> "k", L |-> "l", M |-> "m", N |-> "n",
     O |-> "o", P |-> "p", Q |-> "q", R |-> "r", S |-> "s", T |-> "t", U |-> "u",
     V |-> "v", W |-> "w", X |-> "x", Y |-> "y", Z |-> "z"]

\* a to_lowercase that leaves the text as it is
to_lowercase_identity(text) == text

to_lowercase(text) ==
    [i \in DOMAIN text |-> IF text[i] \in DOMAIN LowerCase THEN LowerCase[text[i]] ELSE text[i]]

\* str::contains
contains(text, pattern) ==
    \E i \in 0..(Len(text) - Len(pattern)) : SubSeq(text, i + 1, i + Len(pattern)) = pattern

DeprecatedPattern == <<"d", "e", "p", "r", "e", "c", "a", "t", "e", "d">>

\* the closure not_deprecated of iter_features: deprecated.map_or(true, Not::not)
feature_not_deprecated(feature) ==
    IF feature.deprecated.some THEN ~feature.deprecated.val ELSE TRUE

\* the closure not_deprecated of iter_templates
collection_not_deprecated(collection) ==
    ~contains(to_lowercase(collection.source_information.maintainer), DeprecatedPattern)

\* collections.iter().flat_map(|collection| collection.features.iter())
RECURSIVE FlatFeatures(_)
FlatFeatures(collections) ==
    IF collections = <<>> THEN <<>>
    ELSE Head(collections).features \o FlatFeatures(Tail(collections))

\* collections.iter().flat_map(|collection| collection.templates.iter())
RECURSIVE FlatTemplates(_)
FlatTemplates(collections) ==
    IF collections = <<>> THEN <<>>
    ELSE Head(collections).templates \o FlatTemplates(Tail(collections))

\* an iter_features that filters by the maintainer of the collection, as
\* iter_templates does
iter_features_by_collection(index, include_deprecated) ==
    IF include_deprecated THEN FlatFeatures(index.collections)
    ELSE FlatFeatures(SelectSeq(index.collections, collection_not_deprecated))

iter_features(index, include_deprecated) ==
    IF include_deprecated THEN FlatFeatures(index.collections)
    ELSE SelectSeq(FlatFeatures(index.collections), feature_not_deprecated)

iter_templates(index, include_deprecated) ==
    IF include_deprecated THEN FlatTemplates(index.collections)
    ELSE FlatTemplates(SelectSeq(index.collections, collection_not_deprecated))

\* Iterator::find(|x| x.id == id)
RECURSIVE FindId(_, _)
FindId(items, id) ==
    IF items = <<>> THEN None
    ELSE IF Head(items).id = id THEN Some(Head(items))
    ELSE FindId(Tail(items), id)

\* a get_feature that looks among the features that are not deprecated
get_feature_not_deprecated(index, feature_id) ==
    FindId(iter_features(index, FALSE), feature_id)

get_feature(index, feature_id) == FindId(iter_features(index, TRUE), feature_id)

get_template(index, template_id) == FindId(iter_templates(index, TRUE), template_id)

(***************************************************************************)
(* SpecQuery: an index is read from a well-formed document and queried.    *)
(***************************************************************************)
\* the ids asked for: those of the pools and one that no entry has
QueryIds == {"a", "b", "t", "zz"}

InitQuery ==
    /\ OptionIdle /\ InitIdle /\ ApplyIdle
    /\ \E q \in ShapeSeqs(QueryMaintainers, QueryFeaturePool, QueryTemplatePool,
                          MaxQuerySize, 0) :
         json_value = IndexJson(q)
    /\ read_result = Idle
    /\ query = Idle
    /\ query_out = Idle

IndexIsRead == read_result # Idle /\ read_result.ok

IterFeatures(include_deprecated) ==
    /\ IndexIsRead
    /\ query' = [op |-> "iter_features", include_deprecated |-> include_deprecated]
    /\ query_out' = iter_features(read_result.val, include_deprecated)
    /\ UNCHANGED <<json_value, read_result, option_vars, init_vars, apply_vars>>

IterTemplates(include_deprecated) ==
    /\ IndexIsRead
    /\ query' = [op |-> "iter_templates", include_deprecated |-> include_deprecated]
    /\ query_out' = iter_templates(read_result.val, include_deprecated)
    /\ UNCHANGED <<json_value, read_result, option_vars, init_vars, apply_vars>>

GetFeature(feature_id) ==
    /\ IndexIsRead
    /\ query' = [op |-> "get_feature", id |-> feature_id]
    /\ query_out' = get_feature(read_result.val, feature_id)
    /\ UNCHANGED <<json_value, read_result, option_vars, init_vars, apply_vars>>

GetTemplate(template_id) ==
    /\ IndexIsRead
    /\ query' = [op |-> "get_template", id |-> template_id]
    /\ query_out' = get_template(read_result.val, template_id)
    /\ UNCHANGED <<json_value, read_result, option_vars, init_vars, apply_vars>>

NextQuery ==
    \/ ReadIndex
    \/ \E include_deprecated \in BOOLEAN : IterFeatures(include_deprecated)
    \/ \E include_deprecated \in BOOLEAN : IterTemplates(include_deprecated)
    \/ \E feature_id \in QueryIds : GetFeature(feature_id)
    \/ \E template_id \in QueryIds : GetTemplate(template_id)

SpecQuery == InitQuery /\ [][NextQuery]_vars

(***************************************************************************)
(* Properties of the index queries (SpecQuery).                            *)
(***************************************************************************)
Collections == read_result.val.collections

\* the positions <<c, k>> of the features (templates) of the index
FeaturePositions ==
    UNION {{<<c, k>> : k \in DOMAIN Collections[c].features} : c \in DOMAIN Collections}

TemplatePositions ==
    UNION {{<<c, k>> : k \in DOMAIN Collections[c].templates} : c \in DOMAIN Collections}

FeatureAt(p) == Collections[p[1]].features[p[2]]
TemplateAt(p) == Collections[p[1]].templates[p[2]]

\* collection order, then entry order
Before(p, q) == p[1] < q[1] \/ (p[1] = q[1] /\ p[2] < q[2])

\* the place of position p among the positions of the set Kept
Rank(p, Kept) == 1 + Cardinality({q \in Kept : Before(q, p)})

\* the text holds "deprecated" in any mix of upper and lower case
DeprecatedLetters ==
    <<{"d", "D"}, {"e", "E"}, {"p", "P"}, {"r", "R"}, {"e", "E"},
      {"c", "C"}, {"a", "A"}, {"t", "T"}, {"e", "E"}, {"d", "D"}>>

SaysDeprecated(text) ==
    \E i \in 0..(Len(text) - Len(DeprecatedLetters)) :
        \A k \in DOMAIN DeprecatedLetters : text[i + k] \in DeprecatedLetters[k]

\* C5: iter_features(include_deprecated) yields the features of all
\* collections in collection order, then feature order: all of them when
\* include_deprecated, otherwise exactly those whose own `deprecated` is
\* absent or false, whatever the maintainer of their collection says.
C5_IterFeaturesFiltersByOwnFlag ==
    (query # Idle /\ query.op = "iter_features")
    => LET Kept == {p \in FeaturePositions :
                       \/ query.include_deprecated
                       \/ FeatureAt(p).deprecated = None
                       \/ FeatureAt(p).deprecated = Some(FALSE)}
       IN  /\ Len(query_out) = Cardinality(Kept)
           /\ \A p \in Kept : query_out[Rank(p, Kept)] = FeatureAt(p)

\* without deprecated features, a feature that is not deprecated was yielded
\* from a collection whose maintainer says "deprecated", and a deprecated
\* feature of another collection was left out
C5_Witness ==
    /\ query # Idle
    /\ query.op = "iter_features"
    /\ ~query.include_deprecated
    /\ \E p \in FeaturePositions :
         /\ SaysDeprecated(Collections[p[1]].source_information.maintainer)
         /\ FeatureAt(p).deprecated # Some(TRUE)
         /\ \E k \in DOMAIN query_out : query_out[k] = FeatureAt(p)
    /\ \E p \in FeaturePositions :
         /\ ~SaysDeprecated(Collections[p[1]].source_information.maintainer)
         /\ FeatureAt(p).deprecated = Some(TRUE)
    /\ Len(query_out) = 1

\* C6: iter_templates(false) yields exactly the templates of the collections
\* whose maintainer does not hold "deprecated" in any letter case, all or
\* none per collection, in collection order then template order;
\* iter_templates(true) yields every template.  Nothing of a template
\* decides.
C6_IterTemplatesFiltersByMaintainer ==
    (query # Idle /\ query.op = "iter_templates")
    => LET Kept == {p \in TemplatePositions :
                       \/ query.include_deprecated
                       \/ ~SaysDeprecated(Collections[p[1]].source_information.maintainer)}
       IN  /\ Len(query_out) = Cardinality(Kept)
           /\ \A p \in Kept : query_out[Rank(p, Kept)] = TemplateAt(p)

\* without deprecated templates, the template of a collection whose
\* maintainer says "Deprecated" was left out, and a template named
\* "deprecated T" of another collection was yielded
C6_Witness ==
    /\ query # Idle
    /\ query.op = "iter_templates"
    /\ ~query.include_deprecated
    /\ \E p \in TemplatePositions :
         SaysDeprecated(Collections[p[1]].source_information.maintainer)
    /\ \E p \in TemplatePositions :
         /\ ~SaysDeprecated(Collections[p[1]].source_information.maintainer)
         /\ TemplateAt(p).name = "deprecated T"
    /\ Len(query_out) = 1
    /\ query_out[1].name = "deprecated T"

\* C7: get_feature(id) and get_template(id) return the first entry, in
\* collection order then entry order, whose id is the argument, and none only
\* when no entry of the index has that id; deprecated features and the
\* templates of deprecated collections are found like any other.
C7_GetReturnsFirstMatch ==
    /\ (query # Idle /\ query.op = "get_feature")
       => LET Matches == {p \in FeaturePositions : FeatureAt(p).id = query.id}
          IN  IF Matches = {} THEN query_out = None
              ELSE \E p \in Matches : /\ \A q \in Matches : q = p \/ Before(p, q)
                                      /\ query_out = Some(FeatureAt(p))
    /\ (query # Idle /\ query.op = "get_template")
       => LET Matches == {p \in TemplatePositions : TemplateAt(p).id = query.id}
          IN  IF Matches = {} THEN query_out = None
              ELSE \E p \in Matches : /\ \A q \in Matches : q = p \/ Before(p, q)
                                      /\ query_out = Some(TemplateAt(p))

\* get_feature returned a deprecated feature that stands before a feature of
\* the same id that is not deprecated
C7_Witness ==
    /\ query # Idle
    /\ query.op = "get_feature"
    /\ query_out # None
    /\ query_out.val.deprecated = Some(TRUE)
    /\ \E p \in FeaturePositions :
         FeatureAt(p).id = query.id /\ FeatureAt(p).deprecated = None

(***************************************************************************)
(* DevOption::configured_default                                           *)
(***************************************************************************)
\* bool::to_string
bool_to_string(b) == IF b THEN "true" ELSE "false"

\* a configured_default that does not fall back to the first proposal
configured_default_without_proposals(option) ==
    CASE option.kind = "Boolean" ->
           IF option.default.t = "String" THEN option.default.v
           ELSE bool_to_string(option.default.v)
      [] option.kind = "Proposals" ->
           IF option.default.some THEN option.default.val ELSE ""
      [] option.kind = "EnumValues" -> option.default

configured_default(option) ==
    CASE option.kind = "Boolean" ->
           IF option.default.t = "String" THEN option.default.v
           ELSE bool_to_string(option.default.v)
      [] option.kind = "Proposals" ->
           IF option.default.some THEN option.default.val
           ELSE IF option.proposals.some /\ option.proposals.val # <<>>
           THEN Head(option.proposals.val)
           ELSE ""
      [] option.kind = "EnumValues" -> option.default

(***************************************************************************)
(* SpecOption: configured_default applied to a DevOption.                  *)
(***************************************************************************)
\* the texts of defaults, and of the entries of `enum` and `proposals`
DefaultTexts == {"true", "false", "True", "", "jammy"}
ProposalTexts == {"jammy", "focal"}

BooleanOption(default) == [kind |-> "Boolean", default |-> default]
EnumValuesOption(default, enum) == [kind |-> "EnumValues", default |-> default, enum |-> enum]
ProposalsOption(default, proposals) ==
    [kind |-> "Proposals", default |-> default, proposals |-> proposals]

DevOptions ==
    {BooleanOption([t |-> "Boolean", v |-> b]) : b \in BOOLEAN}
    \cup {BooleanOption([t |-> "String", v |-> d]) : d \in DefaultTexts}
    \cup {EnumValuesOption(d, e) : d \in DefaultTexts, e \in SeqsUpTo(ProposalTexts, MaxProposals)}
    \cup {ProposalsOption(d, q) :
          d \in {None} \cup {Some(x) : x \in DefaultTexts},
          q \in {None} \cup {Some(x) : x \in SeqsUpTo(ProposalTexts, MaxProposals)}}

InitOption ==
    /\ IndexIdle /\ InitIdle /\ ApplyIdle
    /\ dev_option \in DevOptions
    /\ option_out = Idle

\* registry.rs:213-228
ConfiguredDefault ==
    /\ option_out = Idle
    /\ option_out' = [default |-> configured_default(dev_option)]
    /\ UNCHANGED <<index_vars, dev_option, init_vars, apply_vars>>

(***************************************************************************)
(* Properties of configured_default (SpecOption).                          *)
(***************************************************************************)
\* C8: configured_default returns a string for every DevOption: "true" or
\* "false" for a Boolean with a bool default, the string itself for a Boolean
\* with a string default, the default of a StringEnum, and for a
\* StringProposals its default when there is one, else its first proposal when
\* the list is there and not empty, else the empty string.
C8_ConfiguredDefaultIsTotal ==
    option_out # Idle
    => /\ DOMAIN option_out = {"default"}
       /\ (dev_option.kind = "Boolean" /\ dev_option.default = [t |-> "Boolean", v |-> TRUE])
          => option_out.default = "true"
       /\ (dev_option.kind = "Boolean" /\ dev_option.default = [t |-> "Boolean", v |-> FALSE])
          => option_out.default = "false"
       /\ (dev_option.kind = "Boolean" /\ dev_option.default.t = "String")
          => option_out.default = dev_option.default.v
       /\ dev_option.kind = "EnumValues" => option_out.default = dev_option.default
       /\ (dev_option.kind = "Proposals" /\ dev_option.default # None)
          => option_out.default = dev_option.default.val
       /\ (dev_option.kind = "Proposals" /\ dev_option.default = None)
          => \/ /\ dev_option.proposals # None
                /\ Len(dev_option.proposals.val) > 0
                /\ option_out.default = dev_option.proposals.val[1]
             \/ /\ dev_option.proposals = None
                /\ option_out.default = ""
             \/ /\ dev_option.proposals = Some(<<>>)
                /\ option_out.default = ""

\* a StringProposals without default and with two proposals gave the first
C8_Witness ==
    /\ option_out # Idle
    /\ dev_option.kind = "Proposals"
    /\ dev_option.default = None
    /\ dev_option.proposals # None
    /\ Len(dev_option.proposals.val) = 2
    /\ dev_option.proposals.val[1] # dev_option.proposals.val[2]
    /\ option_out.default = dev_option.proposals.val[1]

(***************************************************************************)
(* init: OCI references, archives and the option prompts                   *)
(***************************************************************************)
\* OciReference: registry, repository and an optional tag
OciReference(registry, repository, tag) ==
    [registry |-> registry, repository |-> repository, tag |-> tag]

\* OciReference::id
id(oci_ref) == oci_ref.registry \o "/" \o oci_ref.repository

\* OciReference::tag_name
tag_name(oci_ref) == IF oci_ref.tag.some THEN oci_ref.tag.val ELSE "latest"

\* A text typed at a prompt is held by its parts; RawText is the string.
RawText(text) ==
    text.registry \o "/" \o text.repository
    \o (IF text.tag.some THEN ":" \o text.tag.val ELSE "")

\* repository names that the grammar of references rejects
MalformedRepositories == {"T/Rust"}

\* OciReference::from_str
from_str(text) ==
    IF text.repository \in MalformedRepositories THEN Err("Parse")
    ELSE Ok(OciReference(text.registry, text.repository, text.tag))

\* A path is a sequence of components, and a component a sequence of tokens,
\* cut so that a file name the code looks for is one token.  The path of a
\* directory entry ends with the token "/".
Last(seq) == seq[Len(seq)]

\* str::ends_with, on the string of the path
ends_with(path, name) == path # <<>> /\ Last(path) # <<>> /\ Last(Last(path)) = name

\* the content of an archive entry that is no JSON document: a sequence of
\* tokens
FileBytes(tokens) == [t |-> "bytes", v |-> tokens]

\* a regular file of an archive
ArchiveEntry(path, data) == [path |-> path, type |-> "Regular", data |-> data]

\* a directory of an archive
DirectoryEntry(path) == [path |-> path, type |-> "Directory", data |-> FileBytes(<<>>)]

\* a search that keeps the last entry whose path ends with the name
RECURSIVE FindEntry_last(_, _)
FindEntry_last(entries, name) ==
    IF entries = <<>> THEN None
    ELSE IF ends_with(entries[Len(entries)].path, name) THEN Some(entries[Len(entries)])
    ELSE FindEntry_last(SubSeq(entries, 1, Len(entries) - 1), name)

\* the first entry of the archive whose path ends with the name
RECURSIVE FindEntry(_, _)
FindEntry(entries, name) ==
    IF entries = <<>> THEN None
    ELSE IF ends_with(Head(entries).path, name) THEN Some(Head(entries))
    ELSE FindEntry(Tail(entries), name)

\* `entry?` in the loop over archive.entries(): a record that the tar reader
\* cannot yield ends the search, when it stands before the first entry whose
\* path ends with the name
RECURSIVE BrokenBefore(_, _)
BrokenBefore(entries, name) ==
    IF entries = <<>> THEN FALSE
    ELSE IF Head(entries).type = "Malformed" THEN TRUE
    ELSE IF ends_with(Head(entries).path, name) THEN FALSE
    ELSE BrokenBefore(Tail(entries), name)

\* DevOptionPromptValue
PromptBoolean(b) == [t |-> "Boolean", v |-> b]
PromptString(text) == [t |-> "String", v |-> text]

\* Display for DevOptionPromptValue
prompt_value_to_string(value) ==
    IF value.t = "Boolean" THEN bool_to_string(value.v) ELSE value.v

\* serde_json::to_value of the value held
prompt_value_to_json(value) ==
    IF value.t = "Boolean" THEN JBool(value.v) ELSE JStr(value.v)

\* a parse that takes any spelling of true and false
bool_from_str_any_case(text) ==
    CASE text \in {"true", "True"} -> Ok(TRUE)
      [] text \in {"false", "False", ""} -> Ok(FALSE)
      [] OTHER -> Err("ParseBool")

\* bool::from_str
bool_from_str(text) ==
    CASE text = "true" -> Ok(TRUE)
      [] text = "false" -> Ok(FALSE)
      [] OTHER -> Err("ParseBool")

\* a prompt that was shown and did not return a value (cancelled, no terminal)
PromptFailed == [ok |-> FALSE, kind |-> "Prompt", shown |-> 1]

PromptAnswered(value) == [ok |-> TRUE, val |-> value, shown |-> 1]

\* what a user types at a Text prompt instead of taking the default
TypedTexts == {"focal"}

\* DevOptionPrompt::display_prompt: the outcomes the user can produce
display_prompt(option) ==
    LET default == configured_default(option)
    IN  CASE option.kind = "Boolean" ->
               IF ~bool_from_str(default).ok
               THEN {[ok |-> FALSE, kind |-> "ParseBool", shown |-> 0]}
               ELSE {PromptAnswered(PromptBoolean(b)) : b \in BOOLEAN} \cup {PromptFailed}
          [] option.kind = "EnumValues" ->
               {PromptAnswered(PromptString(option.enum[i])) : i \in DOMAIN option.enum}
               \cup {PromptFailed}
          [] option.kind = "Proposals" ->
               {PromptAnswered(PromptString(text)) : text \in {default} \cup TypedTexts}
               \cup {PromptFailed}

\* the orders in which a HashMap can yield its keys
Orders(keys) ==
    {order \in SeqsOfLen(keys, Cardinality(keys)) :
        \A i, j \in DOMAIN order : i # j => order[i] # order[j]}

\* `for (name, dev_option) in options { display_prompt()? ... }`: the values
\* of the prompts answered, whether all were, and the prompts shown
RECURSIVE PromptAll(_, _)
PromptAll(order, options) ==
    IF order = <<>> THEN {[ok |-> TRUE, kind |-> "", values |-> <<>>, shown |-> 0]}
    ELSE UNION {
           IF out.ok
           THEN {[ok |-> rest.ok, kind |-> rest.kind,
                  values |-> (Head(order) :> out.val) @@ rest.values,
                  shown |-> out.shown + rest.shown] :
                 rest \in PromptAll(Tail(order), options)}
           ELSE {[ok |-> FALSE, kind |-> out.kind, values |-> <<>>, shown |-> out.shown]} :
           out \in display_prompt(options[Head(order)])}

PromptRuns(options) == UNION {PromptAll(order, options) : order \in Orders(DOMAIN options)}

(***************************************************************************)
(* FeatureEntryBuilder and TemplateBuilder                                 *)
(***************************************************************************)
\* an empty HashMap or serde_json::Map
EmptyMap == <<>>

\* format!("{}:{}", feature.id, feature.major_version)
feature_key(feature) == feature.id \o ":" \o feature.major_version

OptionsOf(config) == IF config.options.some THEN config.options.val ELSE EmptyMap

\* a use_prompt_values that records every value, the defaults too
AllValues(options, values) ==
    JObj([name \in DOMAIN values |-> prompt_value_to_json(values[name])])

\* the object that use_prompt_values builds from the values of the prompts
NonDefaultValues(options, values) ==
    LET kept == {name \in DOMAIN values :
                    prompt_value_to_string(values[name]) # configured_default(options[name])}
    IN  JObj([name \in kept |-> prompt_value_to_json(values[name])])

\* FeatureEntryBuilder::use_prompt_values: the outcomes, one for each way the
\* prompts can go
features_use_prompt_values(features, feature) ==
    {IF run.ok
     THEN [ok |-> TRUE, kind |-> "", shown |-> run.shown, values |-> run.values,
           features |-> (feature_key(feature) :> NonDefaultValues(OptionsOf(feature), run.values))
                        @@ features]
     ELSE [ok |-> FALSE, kind |-> run.kind, shown |-> run.shown, values |-> run.values,
           features |-> features] :
     run \in PromptRuns(OptionsOf(feature))}

\* a use_default_values that starts the map again
features_use_default_values_fresh(features, feature) ==
    (feature_key(feature) :> JObj(EmptyMap))

\* FeatureEntryBuilder::use_default_values
features_use_default_values(features, feature) ==
    (feature_key(feature) :> JObj(EmptyMap)) @@ features

\* FeatureEntryBuilder::len
features_len(features) == Cardinality(DOMAIN features)

TemplateBuilder(config, archive_bytes) ==
    [config |-> config, context |-> EmptyMap, features |-> EmptyMap,
     archive_bytes |-> archive_bytes]

\* a use_default_values that adds the defaults to the context it finds
template_use_default_values_without_clear(builder) ==
    IF ~builder.config.some THEN [ok |-> FALSE, kind |-> "Missing configuration", val |-> builder]
    ELSE IF builder.config.val.options.some
    THEN LET options == builder.config.val.options.val
             all_defaults == [name \in DOMAIN options |-> configured_default(options[name])]
         IN  Ok([builder EXCEPT !.context = all_defaults @@ builder.context])
    ELSE Ok(builder)

\* TemplateBuilder::use_default_values
template_use_default_values(builder) ==
    IF ~builder.config.some THEN [ok |-> FALSE, kind |-> "Missing configuration", val |-> builder]
    ELSE IF builder.config.val.options.some
    THEN LET options == builder.config.val.options.val
             all_defaults == [name \in DOMAIN options |-> configured_default(options[name])]
         IN  Ok([builder EXCEPT !.context = all_defaults])
    ELSE Ok(builder)

\* TemplateBuilder::use_prompt_values: the outcomes; the context keeps the
\* values of the prompts answered before one failed
template_use_prompt_values(builder) ==
    IF ~builder.config.some
    THEN {[ok |-> FALSE, kind |-> "Missing configuration", shown |-> 0, val |-> builder]}
    ELSE IF builder.config.val.options.some
    THEN {[ok |-> run.ok, kind |-> run.kind, shown |-> run.shown,
           val |-> [builder EXCEPT !.context =
                      [name \in DOMAIN run.values |-> prompt_value_to_string(run.values[name])]]] :
          run \in PromptRuns(builder.config.val.options.val)}
    ELSE {[ok |-> TRUE, kind |-> "", shown |-> 0, val |-> builder]}

(***************************************************************************)
(* The registries and the index that init runs against.                    *)
(***************************************************************************)
BooleanOptionJson(default) == JObj([type |-> JStr("boolean"), default |-> default])

EnumOptionJson(default, enum) ==
    JObj([type |-> JStr("string"), default |-> JStr(default),
          enum |-> JArr([i \in DOMAIN enum |-> JStr(enum[i])])])

ProposalsOptionJson(default, proposals) ==
    JObj(Field("default", default)
         @@ [type |-> JStr("string"),
             proposals |-> JArr([i \in DOMAIN proposals |-> JStr(proposals[i])])])

\* the manifest with an `options` object
WithOptions(manifest, options) == JObj(("options" :> JObj(options)) @@ manifest.v)

ManifestJson ==
    [\* features of the index
     git |-> FeatureJson(JStr("ghcr.io/f/git"), JStr("1"), "Git", Absent),
     node |-> WithOptions(FeatureJson(JStr("ghcr.io/f/node"), JStr("2"), "Node", Absent),
                          [version |-> ProposalsOptionJson(JStr("lts"), <<"lts", "18">>),
                           yarn |-> BooleanOptionJson(JBool(TRUE))]),
     \* a feature that only its archive describes, under a short id
     dind |-> WithOptions(FeatureJson(JStr("dind"), JStr("3"), "Docker", Absent),
                          [moby |-> BooleanOptionJson(JStr("true")),
                           flavor |-> EnumOptionJson("b", <<"a", "b">>)]),
     \* templates of the index
     rust |-> WithOptions(TemplateJson(JStr("ghcr.io/t/rust"), "Rust", JStr("image")),
                          [imageVariant |-> ProposalsOptionJson(Absent, <<"jammy", "focal">>)]),
     old |-> TemplateJson(JStr("ghcr.io/t/old"), "Old", JStr("image")),
     \* the manifest in the archive of rust declares another option
     rust2 |-> WithOptions(TemplateJson(JStr("rust"), "Rust", JStr("image")),
                           [installZsh |-> BooleanOptionJson(JBool(FALSE))]),
     \* templates that only their archive describes
     plain |-> TemplateJson(JStr("plain"), "Plain", JStr("image")),
     odd |-> WithOptions(TemplateJson(JStr("odd"), "Odd", JStr("dockerfile")),
                         [legacy |-> BooleanOptionJson(JStr("True"))])]

InitIndexJson ==
    JObj([collections |-> JArr(<<
        JObj([sourceInformation |-> SourceInformationJson("acme", 1),
              features |-> JArr(<<ManifestJson.git, ManifestJson.node>>),
              templates |-> JArr(<<ManifestJson.rust>>)]),
        JObj([sourceInformation |-> SourceInformationJson("old", 2),
              features |-> JArr(<<>>),
              templates |-> JArr(<<ManifestJson.old>>)])>>)])

\* the index that main hands to init
InitIndex == read_devcontainer_index(InitIndexJson).val

DevcontainerJsonPath == <<<<".devcontainer">>, <<"devcontainer.json">>>>
TemplateManifestName == "devcontainer-template.json"
FeatureManifestName == "devcontainer-feature.json"

\* the archives of the registry, by the id of the reference that pulls them;
\* no archive can be pulled for any other id.  The bytes of an archive are
\* held as the sequence of records that the tar reader yields from them.
Archives ==
    ("ghcr.io/t/rust" :> <<ArchiveEntry(DevcontainerJsonPath, FileBytes(<<"rust">>)),
                           ArchiveEntry(<<<<TemplateManifestName>>>>, ManifestJson.rust2)>>)
    @@ ("ghcr.io/t/plain" :> <<ArchiveEntry(<<<<"src">>, <<"plain">>, <<TemplateManifestName>>>>,
                                            ManifestJson.plain),
                               ArchiveEntry(DevcontainerJsonPath, FileBytes(<<"plain">>))>>)
    @@ ("ghcr.io/t/odd" :> <<ArchiveEntry(<<<<TemplateManifestName>>>>, ManifestJson.odd)>>)
    @@ ("ghcr.io/t/bare" :> <<ArchiveEntry(DevcontainerJsonPath, FileBytes(<<"bare">>)),
                              ArchiveEntry(<<<<TemplateManifestName, ".bak">>>>,
                                           ManifestJson.plain)>>)
    @@ ("ghcr.io/f/dind" :> <<ArchiveEntry(<<<<"install.sh">>>>, FileBytes(<<"dind">>)),
                              ArchiveEntry(<<<<FeatureManifestName>>>>, ManifestJson.dind)>>)
    @@ ("ghcr.io/f/bare" :> <<ArchiveEntry(<<<<"install.sh">>>>, FileBytes(<<"bare">>))>>)
    \* archives with more than one manifest, with a manifest that does not
    \* decode, with a name that only has the manifest name inside it, and with
    \* a record that cannot be read
    @@ ("ghcr.io/f/twice" :> <<ArchiveEntry(<<<<"src">>, <<"node">>, <<FeatureManifestName>>>>,
                                            ManifestJson.node),
                               ArchiveEntry(<<<<FeatureManifestName>>>>, ManifestJson.dind)>>)
    @@ ("ghcr.io/f/junk" :> <<ArchiveEntry(<<<<FeatureManifestName>>>>, FileBytes(<<"junk">>)),
                              ArchiveEntry(<<<<"b">>, <<FeatureManifestName>>>>,
                                           ManifestJson.dind)>>)
    @@ ("ghcr.io/f/named" :> <<ArchiveEntry(<<<<FeatureManifestName, ".bak">>>>,
                                            ManifestJson.node),
                               ArchiveEntry(<<<<"my-", FeatureManifestName>>>>,
                                            ManifestJson.git),
                               DirectoryEntry(<<<<FeatureManifestName, "/">>>>)>>)
    @@ ("ghcr.io/f/torn" :> <<ArchiveEntry(<<<<"install.sh">>>>, FileBytes(<<"torn">>)),
                              [path |-> <<>>, type |-> "Malformed", data |-> FileBytes(<<>>)],
                              ArchiveEntry(<<<<FeatureManifestName>>>>, ManifestJson.dind)>>)

\* registry::pull_archive_bytes
pull_archive_bytes(oci_ref) ==
    IF id(oci_ref) \in DOMAIN Archives THEN Ok(Archives[id(oci_ref)]) ELSE Err("Pull")

\* the template and the archive of TemplateBuilder::create_empty_start_point
EmptyStartPointJson ==
    JObj([id |-> JStr("tyedev-base-template"), version |-> JStr("1.0.0"),
          name |-> JStr("Base Template (tyedev)"),
          options |-> JObj([imageVariant |->
              ProposalsOptionJson(JStr("jammy"), <<"bookworm", "bullseye", "jammy", "focal">>)]),
          type |-> JStr("image"), fileCount |-> JNum(2), owner |-> JStr("CodeMan99")])

\* init.rs:603  dot_devcontainer_json
EmptyStartPointBytes ==
    <<"{", "\n", "\t", "\"", "name", "\"", ":", " ", "\"", "tyedev default", "\"", ",",
      "\n", "\t", "\"", "image", "\"", ":", " ", "\"",
      "mcr.microsoft.com/devcontainers/base:", "${templateOption:", "imageVariant", "}",
      "\"", "\n", "}", "\n">>

EmptyStartPointEntries ==
    <<DirectoryEntry(<<<<".devcontainer", "/">>>>),
      ArchiveEntry(DevcontainerJsonPath, FileBytes(EmptyStartPointBytes)),
      ArchiveEntry(<<<<TemplateManifestName>>>>, EmptyStartPointJson)>>

\* Archive::entries of the bytes
archive_entries(archive_bytes) == archive_bytes

\* a start point whose archive has no entry for the directory
create_empty_start_point_without_directory ==
    Ok(TemplateBuilder(IF IsTemplate(EmptyStartPointJson)
                       THEN Some(ToTemplate(EmptyStartPointJson)) ELSE None,
                       Tail(EmptyStartPointEntries)))

\* TemplateBuilder::create_empty_start_point
create_empty_start_point ==
    Ok(TemplateBuilder(IF IsTemplate(EmptyStartPointJson)
                       THEN Some(ToTemplate(EmptyStartPointJson)) ELSE None,
                       EmptyStartPointEntries))

\* TemplateBuilder::new
new_template_builder(template_ref, config) ==
    LET archive_bytes == pull_archive_bytes(template_ref)
    IN  IF archive_bytes.ok THEN Ok(TemplateBuilder(config, archive_bytes.val))
        ELSE archive_bytes

\* TemplateBuilder::replace_config
replace_config(builder) ==
    LET found == FindEntry(archive_entries(builder.archive_bytes), TemplateManifestName)
    IN  IF BrokenBefore(archive_entries(builder.archive_bytes), TemplateManifestName)
        THEN Err("Io")
        ELSE IF ~found.some THEN Err("NotFound")
        ELSE IF ~IsTemplate(found.val.data) THEN Err("Json")
        ELSE Ok([builder EXCEPT !.config = Some(ToTemplate(found.val.data))])

pull_feature_configuration(feature_ref) ==
    LET bytes == pull_archive_bytes(feature_ref)
        found == FindEntry(archive_entries(bytes.val), FeatureManifestName)
    IN  IF ~bytes.ok THEN bytes
        ELSE IF BrokenBefore(archive_entries(bytes.val), FeatureManifestName) THEN Err("Io")
        ELSE IF ~found.some THEN Err("NotFound")
        ELSE IF ~IsFeature(found.val.data) THEN Err("Json")
        ELSE Ok(ToFeature(found.val.data))

\* init.rs get_feature: the index first, then the archive of the reference
init_get_feature(index, feature_ref) ==
    LET feature == get_feature(index, id(feature_ref))
    IN  IF feature.some THEN Ok(feature.val) ELSE pull_feature_configuration(feature_ref)

(***************************************************************************)
(* SpecInit: one run of init against the index and the registries.         *)
(***************************************************************************)
GhcrRef(repository, tag) == OciReference("ghcr.io", repository, tag)

\* the references given with --template-id and --include-features
TemplateRefs ==
    {GhcrRef("t/rust", None), GhcrRef("t/rust", Some("2")), GhcrRef("t/rust", Some("latest")),
     GhcrRef("t/plain", None), GhcrRef("t/odd", None), GhcrRef("t/bare", None),
     GhcrRef("t/old", None)}

FeatureRefs ==
    {GhcrRef("f/git", None), GhcrRef("f/node", None), GhcrRef("f/dind", None),
     GhcrRef("f/none", None)}

\* the texts typed at the prompts for a template and for a feature
TemplateTexts ==
    {GhcrRef("t/rust", None), GhcrRef("t/rust", Some("2")), GhcrRef("t/rust", Some("latest")),
     GhcrRef("t/plain", None), GhcrRef("T/Rust", None)}

FeatureTexts ==
    {GhcrRef("f/node", None), GhcrRef("f/dind", None), GhcrRef("f/bare", None),
     GhcrRef("T/Rust", None)}

\* the parts of a string
TextOf(raw) ==
    CHOOSE text \in TemplateRefs \cup FeatureRefs \cup TemplateTexts \cup FeatureTexts :
        RawText(text) = raw

At(at, i) == [at |-> at, i |-> i]

Call(op, ok, feature, values) == [op |-> op, ok |-> ok, feature |-> feature, values |-> values]

\* the call of TemplateBuilder::new, with the reference it is given
CallNew(template_ref, ok) ==
    [op |-> "TemplateBuilder::new", ok |-> ok, feature |-> None, values |-> EmptyMap,
     template_ref |-> template_ref]


IncludeRefs == IF args.include_features.some THEN args.include_features.val ELSE <<>>

\* where init goes once i of the references of --include-features are done
AfterInclude(i) ==
    IF i < Len(IncludeRefs) THEN At("include_features", i)
    ELSE IF args.non_interactive THEN At("apply", 0)
    ELSE At("add_feature", 0)

\* init goes on with the builder, after `shown` more prompts
Goes(builder, next_pc, shown, called) ==
    /\ template_builder' = builder
    /\ pc' = next_pc
    /\ prompts' = prompts + shown
    /\ call' = called
    /\ UNCHANGED <<args, init_result, index_vars, option_vars, apply_vars>>

\* an init that leaves nothing of the workspace behind when it fails
Fails_and_clears(builder, kind, shown, called) ==
    /\ template_builder' = builder
    /\ pc' = At("done", 0)
    /\ prompts' = prompts + shown
    /\ call' = called
    /\ init_result' = Err(kind)
    /\ disk' = <<>>
    /\ UNCHANGED <<args, index_vars, option_vars, apply_args, applied, apply_result>>

\* `?`: init returns the error
Fails(builder, kind, shown, called) ==
    /\ template_builder' = builder
    /\ pc' = At("done", 0)
    /\ prompts' = prompts + shown
    /\ call' = called
    /\ init_result' = Err(kind)
    /\ UNCHANGED <<args, index_vars, option_vars, apply_vars>>

\* the parsed text starts a TemplateBuilder, with the entry the index has
\* for the string that was typed
StartFrom(text, shown) ==
    LET template_ref == from_str(text)
        made == new_template_builder(template_ref.val, get_template(InitIndex, RawText(text)))
    IN  IF ~template_ref.ok
        THEN Fails(template_builder, "Parse", shown, Call("from_str", FALSE, None, EmptyMap))
        ELSE IF ~made.ok
        THEN Fails(template_builder, made.kind, shown, CallNew(template_ref.val, FALSE))
        ELSE Goes(made.val, At("replace_config", 0), shown, CallNew(template_ref.val, TRUE))

\* init.rs:717-722  --template-id is given
SelectTemplate ==
    /\ pc.at = "select_template"
    /\ args.template_id.some
    /\ LET template_ref == args.template_id.val
           made == new_template_builder(template_ref,
                                        get_template(InitIndex, id(template_ref)))
       IN  IF made.ok
           THEN Goes(made.val, At("replace_config", 0), 0, CallNew(template_ref, TRUE))
           ELSE Fails(template_builder, made.kind, 0, CallNew(template_ref, FALSE))

\* init.rs:723-726
RefuseWithoutTemplate ==
    /\ pc.at = "select_template"
    /\ ~args.template_id.some
    /\ args.non_interactive
    /\ Fails(template_builder, "InvalidInput", 0, call)

\* init.rs:727-758  the starting point is chosen at the prompts
ChooseStartPoint ==
    /\ pc.at = "select_template"
    /\ ~args.template_id.some
    /\ ~args.non_interactive
    /\ \/ Fails(template_builder, "Prompt", 1, call)
       \/ \* PromptEntryAction::Existing
          LET templates == iter_templates(InitIndex, args.include_deprecated)
          IN  \/ Fails(template_builder, "Prompt", 2, call)
              \/ \E i \in DOMAIN templates : StartFrom(TextOf(templates[i].id), 2)
       \/ \* PromptEntryAction::Enter
          \/ Fails(template_builder, "Prompt", 2, call)
          \/ \E text \in TemplateTexts : StartFrom(text, 2)
       \/ \* PromptEntryAction::Empty
          Goes(create_empty_start_point.val, At("replace_config", 0), 1,
               Call("TemplateBuilder::create_empty_start_point", TRUE, None, EmptyMap))

\* init.rs:761-767
ReplaceConfig ==
    /\ pc.at = "replace_config"
    /\ LET is_version_tag ==
               args.template_id.some /\ tag_name(args.template_id.val) # "latest"
           replaced == replace_config(template_builder)
       IN  IF is_version_tag \/ ~template_builder.config.some
           THEN IF replaced.ok
                THEN Goes(replaced.val, At("resolve_options", 0), 0,
                          Call("TemplateBuilder::replace_config", TRUE, None, EmptyMap))
                ELSE Fails(template_builder, replaced.kind, 0,
                           Call("TemplateBuilder::replace_config", FALSE, None, EmptyMap))
           ELSE Goes(template_builder, At("resolve_options", 0), 0, call)

\* init.rs:769-770
TemplateUseDefaultValues ==
    /\ pc.at = "resolve_options"
    /\ args.non_interactive
    /\ LET out == template_use_default_values(template_builder)
       IN  IF out.ok
           THEN Goes(out.val, AfterInclude(0), 0,
                     Call("TemplateBuilder::use_default_values", TRUE, None, EmptyMap))
           ELSE Fails(template_builder, out.kind, 0,
                      Call("TemplateBuilder::use_default_values", FALSE, None, EmptyMap))

\* init.rs:779-780
TemplateUsePromptValues ==
    /\ pc.at = "resolve_options"
    /\ ~args.non_interactive
    /\ \E out \in template_use_prompt_values(template_builder) :
         IF out.ok
         THEN Goes(out.val, AfterInclude(0), out.shown,
                   Call("TemplateBuilder::use_prompt_values", TRUE, None, EmptyMap))
         ELSE Fails(out.val, out.kind, out.shown,
                    Call("TemplateBuilder::use_prompt_values", FALSE, None, EmptyMap))

\* init.rs:772-778  the next reference of --include-features, without prompts
IncludeFeatureUseDefaultValues ==
    /\ pc.at = "include_features"
    /\ args.non_interactive
    /\ LET feature == init_get_feature(InitIndex, IncludeRefs[pc.i + 1])
       IN  IF feature.ok
           THEN Goes([template_builder EXCEPT
                        !.features = features_use_default_values(@, feature.val)],
                     AfterInclude(pc.i + 1), 0,
                     Call("FeatureEntryBuilder::use_default_values", TRUE,
                          Some(feature.val), EmptyMap))
           ELSE Fails(template_builder, feature.kind, 0,
                      Call("get_feature", FALSE, None, EmptyMap))

\* init.rs:782-788  the next reference of --include-features, with prompts
IncludeFeatureUsePromptValues ==
    /\ pc.at = "include_features"
    /\ ~args.non_interactive
    /\ LET feature == init_get_feature(InitIndex, IncludeRefs[pc.i + 1])
       IN  IF feature.ok
           THEN \E out \in features_use_prompt_values(template_builder.features, feature.val) :
                  IF out.ok
                  THEN Goes([template_builder EXCEPT !.features = out.features],
                            AfterInclude(pc.i + 1), out.shown,
                            Call("FeatureEntryBuilder::use_prompt_values", TRUE,
                                 Some(feature.val), out.values))
                  ELSE Fails(template_builder, out.kind, out.shown,
                             Call("FeatureEntryBuilder::use_prompt_values", FALSE,
                                  Some(feature.val), out.values))
           ELSE Fails(template_builder, feature.kind, 0,
                      Call("get_feature", FALSE, None, EmptyMap))

\* init.rs:790-805  one turn of the loop "Add a feature?"
AddFeature ==
    /\ pc.at = "add_feature"
    /\ \/ Fails(template_builder, "Prompt", 1, call)
       \/ \* answered no: break
          Goes(template_builder, At("apply", 0), 1, call)
       \/ \* answered yes
          /\ pc.i < MaxAddFeatures
          /\ \/ Fails(template_builder, "Prompt", 2, call)
             \/ \E input \in FeatureTexts :
                  LET feature_ref == from_str(input)
                      feature == init_get_feature(InitIndex, feature_ref.val)
                  IN  IF ~feature_ref.ok
                      THEN Fails(template_builder, "Parse", 2,
                                 Call("from_str", FALSE, None, EmptyMap))
                      ELSE IF ~feature.ok
                      THEN Fails(template_builder, feature.kind, 2,
                                 Call("get_feature", FALSE, None, EmptyMap))
                      ELSE \E out \in features_use_prompt_values(template_builder.features,
                                                                 feature.val) :
                             IF out.ok
                             THEN Goes([template_builder EXCEPT !.features = out.features],
                                       At("add_feature", pc.i + 1), 2 + out.shown,
                                       Call("FeatureEntryBuilder::use_prompt_values", TRUE,
                                            Some(feature.val), out.values))
                             ELSE Fails(template_builder, out.kind, 2 + out.shown,
                                        Call("FeatureEntryBuilder::use_prompt_values", FALSE,
                                             Some(feature.val), out.values))


(***************************************************************************)
(* Properties of option resolution in init (SpecInit).                     *)
(***************************************************************************)
\* the contexts a builder may hold when its options are resolved
PriorContexts == {EmptyMap, [stale |-> "x"], [imageVariant |-> "buster", installZsh |-> "x"]}

\* --include-features is being worked on, or is done
OptionsResolved == pc.at \in {"include_features", "apply"}

\* the references of --include-features that init has worked on
IncludedSoFar == IF pc.at = "include_features" THEN pc.i ELSE Len(IncludeRefs)

IncludedKey(i) ==
    LET feature == init_get_feature(InitIndex, IncludeRefs[i]).val
    IN  feature.id \o ":" \o feature.major_version

\* C9: with --non-interactive no prompt is shown; use_default_values on a
\* template that declares options leaves, whatever the context held before,
\* a context whose keys are the declared option names, each with the
\* configured_default() of its option; and each feature of
\* --include-features is recorded under "id:majorVersion" with an empty object.
C9_NonInteractiveUsesDefaults ==
    args.non_interactive =>
        /\ prompts = 0
        /\ (pc.at \in {"resolve_options", "include_features", "apply"}
            /\ template_builder.config.val.options.some)
           => LET options == template_builder.config.val.options.val
              IN  /\ \A context \in PriorContexts :
                       LET out == template_use_default_values(
                                      [template_builder EXCEPT !.context = context])
                       IN  /\ out.ok
                           /\ DOMAIN out.val.context = DOMAIN options
                           /\ \A name \in DOMAIN options :
                                out.val.context[name] = configured_default(options[name])
                  /\ OptionsResolved
                     => /\ DOMAIN template_builder.context = DOMAIN options
                        /\ \A name \in DOMAIN options :
                             template_builder.context[name] = configured_default(options[name])
        /\ OptionsResolved
           => /\ \A i \in 1..IncludedSoFar :
                   /\ IncludedKey(i) \in DOMAIN template_builder.features
                   /\ template_builder.features[IncludedKey(i)].t = "object"
                   /\ DOMAIN template_builder.features[IncludedKey(i)].v = {}
              /\ DOMAIN template_builder.features = {IncludedKey(i) : i \in 1..IncludedSoFar}

\* init without prompts has resolved a declared option and recorded two
\* features, one of them with options of its own
C9_Witness ==
    /\ args.non_interactive
    /\ pc.at = "apply"
    /\ prompts = 0
    /\ template_builder.config.val.options.some
    /\ template_builder.context = [installZsh |-> "false"]
    /\ Len(IncludeRefs) = 2
    /\ DOMAIN template_builder.features = {"ghcr.io/f/node:2", "dind:3"}
    /\ \A key \in DOMAIN template_builder.features :
         DOMAIN template_builder.features[key].v = {}

\* C10: after FeatureEntryBuilder::use_prompt_values succeeds, the entry
\* under "id:majorVersion" is an object that has option n exactly when n is
\* declared and its resolved value, as a string, is not configured_default();
\* the value stored is the resolved value, a JSON bool for a Boolean option and
\* a JSON string otherwise; no options or only defaults give an empty object.
C10_PromptValuesKeepNonDefaults ==
    (call.op = "FeatureEntryBuilder::use_prompt_values" /\ call.ok)
    => LET feature == call.feature.val
           key == feature.id \o ":" \o feature.major_version
           declared == IF feature.options.some THEN DOMAIN feature.options.val ELSE {}
           resolved == call.values
           IsDefault(name) ==
               (IF resolved[name].t = "Boolean"
                THEN (IF resolved[name].v THEN "true" ELSE "false")
                ELSE resolved[name].v)
               = configured_default(feature.options.val[name])
       IN  /\ key \in DOMAIN template_builder.features
           /\ template_builder.features[key].t = "object"
           /\ DOMAIN resolved = declared
           /\ LET entry == template_builder.features[key].v
              IN  /\ DOMAIN entry \subseteq declared
                  /\ \A name \in declared : name \in DOMAIN entry <=> ~IsDefault(name)
                  /\ \A name \in DOMAIN entry :
                       IF feature.options.val[name].kind = "Boolean"
                       THEN entry[name] = JBool(resolved[name].v) /\ resolved[name].v \in BOOLEAN
                       ELSE entry[name] = JStr(resolved[name].v)
                  /\ (\A name \in declared : IsDefault(name)) => DOMAIN entry = {}

\* the prompts of a feature gave one value that is not the default and one
\* that is: only the first is stored, as a JSON bool
C10_Witness ==
    /\ call.op = "FeatureEntryBuilder::use_prompt_values"
    /\ call.ok
    /\ call.feature.val.id = "dind"
    /\ call.values = [moby |-> PromptBoolean(FALSE), flavor |-> PromptString("b")]
    /\ template_builder.features["dind:3"] = JObj([moby |-> JBool(FALSE)])

\* the accumulator of the builder, empty before there is a builder
Accumulator(builder) == IF builder = Idle THEN EmptyMap ELSE builder.features

\* C11: in one run of init the accumulator only grows: a step never removes
\* a key and len() never decreases; a key that appears is "id:majorVersion"
\* of the feature that the call of that step added; and a call of
\* use_prompt_values that fails leaves the accumulator as it was.
C11_AccumulatorGrows ==
    [][/\ DOMAIN Accumulator(template_builder) \subseteq DOMAIN Accumulator(template_builder')
       /\ features_len(Accumulator(template_builder))
            <= features_len(Accumulator(template_builder'))
       /\ \A key \in DOMAIN Accumulator(template_builder') \ DOMAIN Accumulator(template_builder) :
            /\ call'.op \in {"FeatureEntryBuilder::use_prompt_values",
                             "FeatureEntryBuilder::use_default_values"}
            /\ call'.ok
            /\ key = call'.feature.val.id \o ":" \o call'.feature.val.major_version
       /\ ~call'.ok => Accumulator(template_builder') = Accumulator(template_builder)
      ]_vars

\* a call of use_prompt_values failed at a prompt after two features were
\* added, and the two are still there
C11_Witness ==
    /\ call.op = "FeatureEntryBuilder::use_prompt_values"
    /\ ~call.ok
    /\ init_result = Err("Prompt")
    /\ DOMAIN template_builder.features = {"ghcr.io/f/node:2", "dind:3"}

(***************************************************************************)
(* Placeholder substitution: Regex::replace_all with apply_context         *)
(* The bytes of a file are a sequence of tokens.  A token is a run of       *)
(* whitespace, a run of word characters, one of the marks "${templateOption:"*)
(* and "}", or a text that is neither whitespace nor a word.                *)
(***************************************************************************)
\* \s
WhitespaceTokens == {" ", "\n", "\t"}

\* \w+
WordTokens ==
    {"name", "image", "imageVariant", "installZsh", "bookworm", "jammy", "focal", "World",
     "Hello", "x", "features", "true", "false", "null", "1", "2", "rust", "plain", "bare",
     "dind", "a", "b", "lts", "18"}

\* \$\{templateOption:
PlaceholderOpen == "${templateOption:"

\* \}
PlaceholderClose == "}"

\* the first position from i on whose token is not of the class
RECURSIVE SkipWhile(_, _, _)
SkipWhile(bytes, i, class) ==
    IF i <= Len(bytes) /\ bytes[i] \in class THEN SkipWhile(bytes, i + 1, class) ELSE i

\* the string that the tokens spell
RECURSIVE Concat(_)
Concat(tokens) == IF tokens = <<>> THEN "" ELSE Head(tokens) \o Concat(Tail(tokens))

\* strings that are more than one token, by their tokens
Spelling ==
    ("${templateOption:x}" :> <<"${templateOption:", "x", "}">>)
    @@ ("a\"b" :> <<"a", "\"", "b">>)

\* str::as_bytes
as_bytes(text) ==
    IF text = "" THEN <<>>
    ELSE IF text \in DOMAIN Spelling THEN Spelling[text]
    ELSE <<text>>

\* the match of the pattern that starts at position i, if there is one
MatchAt(bytes, i) ==
    LET name_first == SkipWhile(bytes, i + 1, WhitespaceTokens)
        name_end == SkipWhile(bytes, name_first, WordTokens)
        close == SkipWhile(bytes, name_end, WhitespaceTokens)
    IN  IF /\ bytes[i] = PlaceholderOpen
           /\ name_end > name_first
           /\ close <= Len(bytes)
           /\ bytes[close] = PlaceholderClose
        THEN Some([name |-> Concat(SubSeq(bytes, name_first, name_end - 1)), last |-> close])
        ELSE None

\* the closure apply_context
apply_context(context, name) ==
    IF name \in DOMAIN context THEN as_bytes(context[name]) ELSE <<>>

\* an apply_context that leaves the placeholder of an unknown name in place
RECURSIVE replace_from_keeping_unknown(_, _, _)
replace_from_keeping_unknown(bytes, i, context) ==
    IF i > Len(bytes) THEN <<>>
    ELSE LET found == MatchAt(bytes, i)
         IN  IF found.some /\ found.val.name \in DOMAIN context
             THEN apply_context(context, found.val.name)
                  \o replace_from_keeping_unknown(bytes, found.val.last + 1, context)
             ELSE <<bytes[i]>> \o replace_from_keeping_unknown(bytes, i + 1, context)

\* Regex::replace_all from position i on: the matches, leftmost first and
\* not overlapping, give way to what apply_context returns
RECURSIVE replace_from(_, _, _)
replace_from(bytes, i, context) ==
    IF i > Len(bytes) THEN <<>>
    ELSE LET found == MatchAt(bytes, i)
         IN  IF found.some
             THEN apply_context(context, found.val.name)
                  \o replace_from(bytes, found.val.last + 1, context)
             ELSE <<bytes[i]>> \o replace_from(bytes, i + 1, context)

\* a replacement that looks for placeholders in its own output once more
replace_all_rescanned(bytes, context) ==
    replace_from(replace_from(bytes, 1, context), 1, context)

\* template_option_re.replace_all(bytes, apply_context)
replace_all(bytes, context) == replace_from(bytes, 1, context)

(***************************************************************************)
(* serde_jsonc::from_slice and serde_json_pretty::to_writer_with_tabs, on   *)
(* tokens.  The marks of JSON are tokens of their own; a string is what     *)
(* stands between two quotes.                                               *)
(***************************************************************************)
Quote == "\""

\* comments, which serde_jsonc skips like whitespace
CommentTokens == {"// note\n", "/* note */"}

\* tokens with a control character: not allowed inside a string
ControlTokens == {"\n", "\t", "// note\n"}

\* number tokens and their values
NumberOf == ("1" :> 1) @@ ("2" :> 2)

SkipBlank(bytes, i) == SkipWhile(bytes, i, WhitespaceTokens \cup CommentTokens)

ParseFailed(i) == [ok |-> FALSE, val |-> JNull, next |-> i]

ParsedAs(value, next) == [ok |-> TRUE, val |-> value, next |-> next]

\* a string whose opening quote is at i
ParseString(bytes, i) ==
    LET close == SkipWhile(bytes, i + 1, {t \in {bytes[k] : k \in DOMAIN bytes} : t # Quote})
        inner == SubSeq(bytes, i + 1, close - 1)
    IN  IF close > Len(bytes) \/ \E k \in DOMAIN inner : inner[k] \in ControlTokens
        THEN ParseFailed(i)
        ELSE ParsedAs(Concat(inner), close + 1)

RECURSIVE ParseValue(_, _)
RECURSIVE ParseMembers(_, _, _)
RECURSIVE ParseElements(_, _, _)

\* the members of an object from i on, after those of acc; i is not blank
ParseMembers(bytes, i, acc) ==
    IF i > Len(bytes) \/ bytes[i] # Quote THEN ParseFailed(i)
    ELSE LET key == ParseString(bytes, i)
             colon == SkipBlank(bytes, key.next)
             member == ParseValue(bytes, SkipBlank(bytes, colon + 1))
             after == SkipBlank(bytes, member.next)
             members == (key.val :> member.val) @@ acc
         IN  IF ~key.ok \/ colon > Len(bytes) \/ bytes[colon] # ":" THEN ParseFailed(i)
             ELSE IF ~member.ok \/ after > Len(bytes) THEN ParseFailed(i)
             ELSE IF bytes[after] = "}" THEN ParsedAs(JObj(members), after + 1)
             ELSE IF bytes[after] = ","
             THEN ParseMembers(bytes, SkipBlank(bytes, after + 1), members)
             ELSE ParseFailed(i)

\* the elements of an array from i on, after those of acc; i is not blank
ParseElements(bytes, i, acc) ==
    LET element == ParseValue(bytes, i)
        after == SkipBlank(bytes, element.next)
    IN  IF ~element.ok \/ after > Len(bytes) THEN ParseFailed(i)
        ELSE IF bytes[after] = "]" THEN ParsedAs(JArr(Append(acc, element.val)), after + 1)
        ELSE IF bytes[after] = ","
        THEN ParseElements(bytes, SkipBlank(bytes, after + 1), Append(acc, element.val))
        ELSE ParseFailed(i)

\* the value that starts at i; i is not blank
ParseValue(bytes, i) ==
    IF i > Len(bytes) THEN ParseFailed(i)
    ELSE CASE bytes[i] = "{" ->
                LET first == SkipBlank(bytes, i + 1)
                IN  IF first <= Len(bytes) /\ bytes[first] = "}"
                    THEN ParsedAs(JObj(EmptyMap), first + 1)
                    ELSE ParseMembers(bytes, first, EmptyMap)
           [] bytes[i] = "[" ->
                LET first == SkipBlank(bytes, i + 1)
                IN  IF first <= Len(bytes) /\ bytes[first] = "]"
                    THEN ParsedAs(JArr(<<>>), first + 1)
                    ELSE ParseElements(bytes, first, <<>>)
           [] bytes[i] = Quote ->
                LET text == ParseString(bytes, i)
                IN  IF text.ok THEN ParsedAs(JStr(text.val), text.next) ELSE ParseFailed(i)
           [] bytes[i] = "true" -> ParsedAs(JBool(TRUE), i + 1)
           [] bytes[i] = "false" -> ParsedAs(JBool(FALSE), i + 1)
           [] bytes[i] = "null" -> ParsedAs(JNull, i + 1)
           [] bytes[i] \in DOMAIN NumberOf -> ParsedAs(JNum(NumberOf[bytes[i]]), i + 1)
           [] OTHER -> ParseFailed(i)

\* serde_jsonc::from_slice::<Value>
from_slice(bytes) ==
    LET value == ParseValue(bytes, SkipBlank(bytes, 1))
    IN  IF value.ok /\ SkipBlank(bytes, value.next) > Len(bytes) THEN Ok(value.val)
        ELSE Err("Json")

\* the keys of a map in the order in which the Map yields them
RECURSIVE KeysInOrder(_)
KeysInOrder(keys) ==
    IF keys = {} THEN <<>>
    ELSE LET key == CHOOSE k \in keys : TRUE
         IN  <<key>> \o KeysInOrder(keys \ {key})

Tabs(depth) == [i \in 1..depth |-> "\t"]

NumberText(n) == CHOOSE token \in DOMAIN NumberOf : NumberOf[token] = n

RECURSIVE Serialize(_, _)
RECURSIVE SerializeMembers(_, _, _)
RECURSIVE SerializeElements(_, _)

\* the members of the keys, each on a line of its own at the depth
SerializeMembers(members, keys, depth) ==
    IF keys = <<>> THEN <<>>
    ELSE <<"\n">> \o Tabs(depth) \o <<Quote>> \o as_bytes(Head(keys)) \o <<Quote, ":", " ">>
         \o Serialize(members[Head(keys)], depth)
         \o (IF Len(keys) > 1 THEN <<",">> ELSE <<>>)
         \o SerializeMembers(members, Tail(keys), depth)

SerializeElements(elements, depth) ==
    IF elements = <<>> THEN <<>>
    ELSE <<"\n">> \o Tabs(depth) \o Serialize(Head(elements), depth)
         \o (IF Len(elements) > 1 THEN <<",">> ELSE <<>>)
         \o SerializeElements(Tail(elements), depth)

\* PrettyFormatter::with_indent(b"\t"), for a value that stands at the depth
Serialize(value, depth) ==
    CASE value.t = "object" ->
           IF DOMAIN value.v = {} THEN <<"{", "}">>
           ELSE <<"{">> \o SerializeMembers(value.v, KeysInOrder(DOMAIN value.v), depth + 1)
                \o <<"\n">> \o Tabs(depth) \o <<"}">>
      [] value.t = "array" ->
           IF value.v = <<>> THEN <<"[", "]">>
           ELSE <<"[">> \o SerializeElements(value.v, depth + 1)
                \o <<"\n">> \o Tabs(depth) \o <<"]">>
      [] value.t = "string" -> <<Quote>> \o as_bytes(value.v) \o <<Quote>>
      [] value.t = "bool" -> <<bool_to_string(value.v)>>
      [] value.t = "number" -> <<NumberText(value.v)>>
      [] value.t = "null" -> <<"null">>

\* serde_json_pretty::to_writer_with_tabs
to_writer_with_tabs(value) == Serialize(value, 0)

(***************************************************************************)
(* Paths and the file system.  A path is the sequence of its components,   *)
(* the file system a map from the paths that exist to what is there.       *)
(***************************************************************************)
Dir == [kind |-> "dir", bytes |-> <<>>]

RegularFile(bytes) == [kind |-> "file", bytes |-> bytes]

IsNameToken(token) == token # "/"

\* Path::components: the separators are not part of any component
Components(path) == [i \in 1..Len(path) |-> SelectSeq(path[i], IsNameToken)]

\* Path::join with a relative path
join(workspace, path) == workspace \o Components(path)

\* Path::ends_with: whole components only
path_ends_with(path, child) ==
    /\ Len(child) <= Len(path)
    /\ SubSeq(path, Len(path) - Len(child) + 1, Len(path)) = child

Prefixes(path) == {SubSeq(path, 1, k) : k \in 1..Len(path)}

Parent(path) == SubSeq(path, 1, Len(path) - 1)

IsDir(files, path) == path = <<>> \/ (path \in DOMAIN files /\ files[path].kind = "dir")

\* fs::create_dir: the parent must be there and the path must not be
create_dir_all_strict(files, path) ==
    IF path \in DOMAIN files \/ ~IsDir(files, Parent(path))
    THEN [ok |-> FALSE, disk |-> files]
    ELSE [ok |-> TRUE, disk |-> (path :> Dir) @@ files]

\* fs::create_dir_all: fails when a file stands where a directory is needed
create_dir_all(files, path) ==
    IF \E p \in Prefixes(path) : p \in DOMAIN files /\ files[p].kind = "file"
    THEN [ok |-> FALSE, disk |-> files]
    ELSE [ok |-> TRUE,
          disk |-> [p \in DOMAIN files \cup Prefixes(path) |->
                        IF p \in DOMAIN files THEN files[p] ELSE Dir]]

\* a File::create that makes the directories above the file
file_create_with_parents(files, path) ==
    IF create_dir_all(files, Parent(path)).ok /\ ~IsDir(files, path)
    THEN [ok |-> TRUE,
          disk |-> (path :> RegularFile(<<>>)) @@ create_dir_all(files, Parent(path)).disk]
    ELSE [ok |-> FALSE, disk |-> files]

\* File::create: the parent must be a directory and the path must not be
\* one; the file is created, or truncated when it exists
file_create(files, path) ==
    IF IsDir(files, Parent(path)) /\ ~IsDir(files, path)
    THEN [ok |-> TRUE, disk |-> (path :> RegularFile(<<>>)) @@ files]
    ELSE [ok |-> FALSE, disk |-> files]

\* Write::write_all on the file just created
write_all(files, path, bytes) == (path :> RegularFile(bytes)) @@ files

(***************************************************************************)
(* TemplateBuilder::apply_context_and_features                             *)
(***************************************************************************)
\* a list that lets NOTES.md through
template_skip_without_notes == <<"README.md", "devcontainer-template.json">>

template_skip == <<"NOTES.md", "README.md", "devcontainer-template.json">>

dc_filename1 == DevcontainerJsonPath

dc_filename2 == <<<<".devcontainer.json">>>>

\* the content of an entry, as Read::read_to_end gives it
entry_bytes(entry) ==
    IF entry.data.t = "bytes" THEN entry.data.v ELSE to_writer_with_tabs(entry.data)

\* a builder that no template makes eligible
is_single_file_eligible_never(builder) == FALSE

\* TemplateBuilder::is_single_file_eligible
is_single_file_eligible(builder) ==
    IF builder.config.some /\ builder.config.val.type.some
    THEN CASE builder.config.val.type.val = "dockerCompose" -> FALSE
           [] builder.config.val.type.val = "dockerfile" -> FALSE
           [] builder.config.val.type.val = "image"
              /\ builder.config.val.file_count.some
              /\ builder.config.val.file_count.val > 4 -> FALSE
           [] OTHER -> TRUE
    ELSE FALSE

\* a merge in which the features of the source win
merge_features_source_first(devcontainer, features) ==
    IF "features" \in DOMAIN devcontainer.v /\ devcontainer.v["features"].t = "object"
    THEN JObj([devcontainer.v EXCEPT
                   !["features"] = JObj(devcontainer.v["features"].v @@ features)])
    ELSE JObj(("features" :> JObj(features)) @@ devcontainer.v)

\* a merge that writes the features and nothing else
merge_features_alone(devcontainer, features) == JObj(("features" :> JObj(features)))

\* init.rs:516-522  the accumulated features go into the parsed object
merge_features(devcontainer, features) ==
    IF "features" \in DOMAIN devcontainer.v /\ devcontainer.v["features"].t = "object"
    THEN JObj([devcontainer.v EXCEPT
                   !["features"] = JObj(features @@ devcontainer.v["features"].v)])
    ELSE JObj(("features" :> JObj(features)) @@ devcontainer.v)

\* what one turn of the loop did
Did(did, filename, files) ==
    [ok |-> TRUE, kind |-> "", did |-> did, failed_in |-> "", filename |-> filename,
     disk |-> files]

\* an error that takes away what the call has made so far
Stops_and_cleans(kind, failed_in, filename, files) ==
    [ok |-> FALSE, kind |-> kind, did |-> "error", failed_in |-> failed_in,
     filename |-> filename, disk |-> <<>>]

\* `?`: the turn ends the loop with the error of the call that failed
Stops(kind, failed_in, filename, files) ==
    [ok |-> FALSE, kind |-> kind, did |-> "error", failed_in |-> failed_in,
     filename |-> filename, disk |-> files]

\* File::create and the write of the bytes.  The write fails when the
\* system makes it fail, and then leaves the file as File::create left it.
create_and_write(did, files, filename, bytes, write_fails) ==
    LET file == file_create(files, filename)
    IN  IF ~file.ok THEN Stops("Io", "File::create", filename, files)
        ELSE IF write_fails THEN Stops("Io", "write_all", filename, file.disk)
        ELSE Did(did, filename, write_all(file.disk, filename, bytes))

\* a write that creates the file before it looks at the configuration
write_devcontainer_created_first(builder, files, filename, with_context, write_fails) ==
    IF features_len(builder.features) > 0
    THEN LET value == from_slice(with_context)
             file == file_create(files, filename)
         IN  IF ~file.ok THEN Stops("Io", "File::create", filename, files)
             ELSE IF ~value.ok THEN Stops("Json", "from_slice", filename, file.disk)
             ELSE IF value.val.t # "object"
             THEN Stops("InvalidData", "as_object_mut", filename, file.disk)
             ELSE IF write_fails THEN Stops("Io", "write_all", filename, file.disk)
             ELSE Did("merge", filename,
                      write_all(file.disk, filename,
                          to_writer_with_tabs(merge_features(value.val, builder.features))))
    ELSE create_and_write("file", files, filename, with_context, write_fails)

\* a write that parses the file whether or not there are features
write_devcontainer_always_parsed(builder, files, filename, with_context, write_fails) ==
    LET value == from_slice(with_context)
    IN  IF ~value.ok THEN Stops("Json", "from_slice", filename, files)
        ELSE IF value.val.t # "object"
        THEN Stops("InvalidData", "as_object_mut", filename, files)
        ELSE IF features_len(builder.features) > 0
        THEN create_and_write("merge", files, filename,
                 to_writer_with_tabs(merge_features(value.val, builder.features)),
                 write_fails)
        ELSE create_and_write("file", files, filename, with_context, write_fails)

\* init.rs:508-526  the write of a file that ends with dc_filename1 or dc_filename2
write_devcontainer(builder, files, filename, with_context, write_fails) ==
    IF features_len(builder.features) > 0
    THEN LET value == from_slice(with_context)
         IN  IF ~value.ok THEN Stops("Json", "from_slice", filename, files)
             ELSE IF value.val.t # "object"
             THEN Stops("InvalidData", "as_object_mut", filename, files)
             ELSE create_and_write("merge", files, filename,
                      to_writer_with_tabs(merge_features(value.val, builder.features)),
                      write_fails)
    ELSE create_and_write("file", files, filename, with_context, write_fails)

\* init.rs:474-540  the body of the loop, for one entry
apply_entry(builder, attempt_single_file, workspace, files, entry, write_fails) ==
    IF entry.type = "Malformed" THEN Stops("Io", "entry", workspace, files)
    ELSE
    LET filename == join(workspace, entry.path)
    IN  IF \E i \in 1..Len(template_skip) : path_ends_with(filename, <<<<template_skip[i]>>>>)
        THEN Did("skip", filename, files)
        ELSE IF entry.type = "Directory"
        THEN LET made == create_dir_all(files, filename)
             IN  IF made.ok THEN Did("dir", filename, made.disk)
                 ELSE Stops("Io", "create_dir_all", filename, files)
        ELSE IF entry.type \in {"Regular", "Continuous"}
        THEN LET with_context == replace_all(entry_bytes(entry), builder.context)
             IN  IF path_ends_with(filename, dc_filename1)
                    \/ path_ends_with(filename, dc_filename2)
                 THEN write_devcontainer(builder, files,
                          IF attempt_single_file /\ is_single_file_eligible(builder)
                          THEN join(workspace, dc_filename2) ELSE filename,
                          with_context, write_fails)
                 ELSE create_and_write("file", files, filename, with_context, write_fails)
        ELSE Did("ignore", filename, files)

(***************************************************************************)
(* SpecApply: one call of apply_context_and_features, an entry at a time,  *)
(* for builders, archives and file systems of several kinds.               *)
(***************************************************************************)
MaxArchiveEntries == 3

MaxFileTokens == 5

Workspace == <<<<"ws">>>>

\* a workspace folder whose own name is .devcontainer
DotWorkspace == <<<<"home">>, <<".devcontainer">>>>

OldBytes == <<"old">>

\* the file systems in which the workspace is an empty directory, has the
\* output of an earlier run, or has a file or a directory in the way
InitialDisks(workspace) ==
    LET empty == [p \in Prefixes(workspace) |-> Dir]
    IN  {empty,
         (join(workspace, dc_filename1) :> RegularFile(OldBytes))
             @@ (join(workspace, <<<<".devcontainer">>>>) :> Dir)
             @@ (join(workspace, dc_filename2) :> RegularFile(OldBytes)) @@ empty,
         (join(workspace, <<<<".devcontainer">>>>) :> RegularFile(OldBytes)) @@ empty,
         (join(workspace, dc_filename2) :> Dir) @@ empty}

\* directories below one another, a file below them, a file that has the
\* name of the first directory, and a configuration that is no JSON
DirectoryPool ==
    {DirectoryEntry(<<<<"a", "/">>>>),
     DirectoryEntry(<<<<"a">>, <<"b", "/">>>>),
     ArchiveEntry(<<<<"a">>, <<"b">>, <<"f">>>>, FileBytes(<<"x">>)),
     ArchiveEntry(<<<<"a">>>>, FileBytes(<<"x">>)),
     ArchiveEntry(DevcontainerJsonPath, FileBytes(<<"x">>))}

\* the workspace alone; with the directory a, which has a file; with a file
\* named a
DirectoryDisks(workspace) ==
    LET empty == [p \in Prefixes(workspace) |-> Dir]
    IN  {empty,
         (join(workspace, <<<<"a">>>>) :> Dir)
             @@ (join(workspace, <<<<"a">>, <<"old">>>>) :> RegularFile(OldBytes)) @@ empty,
         (join(workspace, <<<<"a">>>>) :> RegularFile(OldBytes)) @@ empty}

\* {"name": "${templateOption:name}"}
NameDoc ==
    <<"{", Quote, "name", Quote, ":", " ", Quote, PlaceholderOpen, "name", "}", Quote, "}">>

\* {"a": 1}
NumberDoc == <<"{", Quote, "a", Quote, ":", " ", "1", "}">>

\* FROM base:${templateOption: imageVariant }
DockerfileBytes == <<"FROM base:", PlaceholderOpen, " ", "imageVariant", " ", "}", "\n">>

\* the records that the archives of SpecApply are made of
EntryPool ==
    {DirectoryEntry(<<<<".devcontainer", "/">>>>),
     ArchiveEntry(DevcontainerJsonPath, FileBytes(NameDoc)),
     ArchiveEntry(dc_filename2, FileBytes(NumberDoc)),
     ArchiveEntry(<<<<"docs">>, <<"README.md">>>>, FileBytes(<<"Hello">>)),
     DirectoryEntry(<<<<"NOTES.md", "/">>>>),
     ArchiveEntry(<<<<TemplateManifestName>>>>, EmptyStartPointJson),
     ArchiveEntry(<<<<"x", "README.md">>>>, FileBytes(<<"Hello">>)),
     ArchiveEntry(<<<<"sub">>>> \o DevcontainerJsonPath, FileBytes(NumberDoc)),
     [path |-> <<>>, type |-> "Malformed", data |-> FileBytes(<<>>)]}

\* the documents that stand in .devcontainer/devcontainer.json
ConfigDocs ==
    {NameDoc,
     <<"{", "}">>,
     <<"{", "\n", "\t", Quote, "name", Quote, ":", " ", Quote, "x", Quote, ",", "\n", "\t",
       Quote, "features", Quote, ":", " ", "{", Quote, "dind:3", Quote, ":", " ", "{",
       Quote, "installZsh", Quote, ":", " ", "false", "}", ",", " ",
       Quote, "rust:1", Quote, ":", " ", "{", "}", "}", "\n", "}", "\n">>,
     <<"{", Quote, "features", Quote, ":", " ", Quote, "x", Quote, ",", " ",
       Quote, "a", Quote, ":", " ", "[", "1", ",", " ", "{", Quote, "b", Quote, ":", "null",
       "}", "]", "}">>,
     <<"// note\n", "{", Quote, "name", Quote, ":", " ", Quote, "x", Quote, " ", "/* note */",
       ",", Quote, "features", Quote, ":", "{", "}", "}", "\n">>,
     <<"{", Quote, "image", Quote, ":", " ", Quote, "base:", PlaceholderOpen, "imageVariant",
       "}", Quote, "}">>,
     <<"{", Quote, "name", Quote, ":", " ", "}">>,
     <<"[", "1", ",", " ", "2", "]">>,
     <<Quote, "x", Quote>>,
     <<"1">>,
     <<"null">>,
     <<>>}

\* FeatureEntryBuilders: empty, of one feature, of two
Accumulators ==
    {EmptyMap,
     ("dind:3" :> JObj(EmptyMap)),
     ("dind:3" :> JObj([installZsh |-> JBool(TRUE)]))
         @@ ("ghcr.io/f/node:2" :> JObj([version |-> JStr("18")]))}

\* template contexts
Contexts ==
    {EmptyMap,
     [imageVariant |-> "bookworm"],
     [name |-> "World", imageVariant |-> ""],
     [name |-> "${templateOption:x}", x |-> "1"],
     [name |-> "a\"b", imageVariant |-> "a\"b"]}

\* the tokens of the files in which placeholders are looked for
SubstitutionTokens == {PlaceholderOpen, "name", "x", " ", "}"}

\* Hello ${templateOption: name }
HelloBytes == <<"Hello", " ", PlaceholderOpen, " ", "name", " ", "}">>

\* the configurations of a builder: none, and the template of the empty
\* start point with each type and file count
Configs ==
    {None} \cup
    {Some([ToTemplate(EmptyStartPointJson) EXCEPT !.type = type, !.file_count = file_count]) :
        type \in {None} \cup {Some(name) : name \in TemplateTypeNames},
        file_count \in {None, Some(3), Some(4), Some(5)}}

Builder(config, context, features, archive_bytes) ==
    [config |-> config, context |-> context, features |-> features,
     archive_bytes |-> archive_bytes]

ApplyArgs(attempt_single_file, workspace) ==
    [attempt_single_file |-> attempt_single_file, workspace |-> workspace]

InitApply ==
    /\ IndexIdle /\ OptionIdle
    /\ args = Idle /\ pc = Idle /\ prompts = 0 /\ call = Idle /\ init_result = Idle
    /\ applied = <<>>
    /\ apply_result = Idle
    /\ \/ \* archives of every layout
          /\ \E archive \in SeqsUpTo(EntryPool, MaxArchiveEntries),
                features \in {EmptyMap, ("dind:3" :> JObj(EmptyMap))} :
                template_builder = Builder(create_empty_start_point.val.config,
                                           [name |-> "World"], features, archive)
          /\ apply_args \in {ApplyArgs(attempt, Workspace) : attempt \in BOOLEAN}
          /\ disk = [p \in Prefixes(Workspace) |-> Dir]
       \/ \* files of every content
          /\ \E bytes \in SeqsUpTo(SubstitutionTokens, MaxFileTokens) \cup {HelloBytes},
                context \in {EmptyMap, [name |-> "World"], [name |-> "${templateOption:x}", x |-> "1"]} :
                template_builder = Builder(None, context, EmptyMap,
                                           <<ArchiveEntry(<<<<"file">>>>, FileBytes(bytes))>>)
          /\ apply_args = ApplyArgs(FALSE, Workspace)
          /\ disk = [p \in Prefixes(Workspace) |-> Dir]
       \/ \* configuration files of every content
          /\ \E doc \in ConfigDocs, features \in Accumulators, context \in Contexts :
                template_builder =
                    Builder(create_empty_start_point.val.config, context, features,
                            <<DirectoryEntry(<<<<".devcontainer", "/">>>>),
                              ArchiveEntry(DevcontainerJsonPath, FileBytes(doc)),
                              ArchiveEntry(<<<<"x", "README.md">>>>, FileBytes(<<"Hello">>))>>)
          /\ apply_args \in {ApplyArgs(attempt, Workspace) : attempt \in BOOLEAN}
          /\ disk \in InitialDisks(Workspace)
       \/ \* templates of every type and size
          /\ \E config \in Configs, features \in Accumulators :
                template_builder =
                    Builder(config, [imageVariant |-> "bookworm"], features,
                            <<DirectoryEntry(<<<<".devcontainer", "/">>>>),
                              ArchiveEntry(DevcontainerJsonPath, FileBytes(EmptyStartPointBytes)),
                              ArchiveEntry(<<<<".devcontainer">>, <<"Dockerfile">>>>,
                                           FileBytes(DockerfileBytes)),
                              [path |-> <<<<"link">>>>, type |-> "Symlink",
                               data |-> FileBytes(<<>>)],
                              [path |-> <<<<"more">>>>, type |-> "Continuous",
                               data |-> FileBytes(<<"x">>)]>>)
          /\ apply_args \in {ApplyArgs(attempt, Workspace) : attempt \in BOOLEAN}
          /\ disk = [p \in Prefixes(Workspace) |-> Dir]
       \/ \* the empty start point, in every workspace
          /\ \E context \in Contexts, features \in Accumulators :
                template_builder =
                    [create_empty_start_point.val EXCEPT !.context = context,
                                                         !.features = features]
          /\ \E workspace \in {Workspace, DotWorkspace} :
                /\ apply_args \in {ApplyArgs(attempt, workspace) : attempt \in BOOLEAN}
                /\ disk \in InitialDisks(workspace)
       \/ \* directories at every depth
          /\ \E archive \in SeqsUpTo(DirectoryPool, MaxArchiveEntries),
                features \in {EmptyMap, ("dind:3" :> JObj(EmptyMap))} :
                template_builder = Builder(None, EmptyMap, features, archive)
          /\ apply_args = ApplyArgs(FALSE, Workspace)
          /\ disk \in DirectoryDisks(Workspace)

Entries == archive_entries(template_builder.archive_bytes)

\* init.rs:474  the loop takes the next entry of the archive
ApplyEntry ==
    /\ apply_args # Idle
    /\ apply_result = Idle
    /\ Len(applied) < Len(Entries)
    /\ \E write_fails \in BOOLEAN :
          LET turn == apply_entry(template_builder, apply_args.attempt_single_file,
                                  apply_args.workspace, disk, Entries[Len(applied) + 1],
                                  write_fails)
          IN  /\ disk' = turn.disk
              /\ applied' = Append(applied, [did |-> turn.did, filename |-> turn.filename,
                                             failed_in |-> turn.failed_in])
              /\ apply_result' = IF turn.ok THEN Idle ELSE Err(turn.kind)
    /\ UNCHANGED <<index_vars, option_vars, init_vars, apply_args>>

\* a return that takes the accumulated features and the context with it
ApplyReturns_and_clears ==
    /\ apply_args # Idle
    /\ apply_result = Idle
    /\ Len(applied) = Len(Entries)
    /\ apply_result' = Ok(TRUE)
    /\ template_builder' = [template_builder EXCEPT !.features = EmptyMap,
                                                    !.context = EmptyMap]
    /\ UNCHANGED <<index_vars, option_vars, args, pc, prompts, call, init_result,
                   apply_args, disk, applied>>

\* init.rs:542  no entry is left
ApplyReturns ==
    /\ apply_args # Idle
    /\ apply_result = Idle
    /\ Len(applied) = Len(Entries)
    /\ apply_result' = Ok(TRUE)
    /\ UNCHANGED <<index_vars, option_vars, init_vars, apply_args, disk, applied>>

NextApply ==
    \/ ApplyEntry
    \/ ApplyReturns

SpecApply == InitApply /\ [][NextApply]_vars

(***************************************************************************)
(* Properties of apply_context_and_features                                *)
(***************************************************************************)
\* the turns of the loop that did this
TurnsThat(did) == {i \in 1..Len(applied) : applied[i].did = did}

\* C12: in one run of apply_context_and_features the accumulated features
\* are merged for at most one entry of the archive.  The loop has no such
\* limit: every file whose path ends with .devcontainer/devcontainer.json or
\* with .devcontainer.json is merged.
C12_MergedAtMostOnce == Cardinality(TurnsThat("merge")) <= 1

\* the last turn of the loop and the entry it took
LastTurn == applied[Len(applied)]

LastEntry == Entries[Len(applied)]

\* a placeholder stands at i..j: the opening, whitespace, a name of word
\* tokens, whitespace, the closing brace
IsPlaceholder(bytes, i, j) ==
    /\ i < j /\ bytes[i] = PlaceholderOpen /\ bytes[j] = "}"
    /\ \E first \in i + 1..j - 1 : \E last \in first..j - 1 :
          /\ \A k \in i + 1..first - 1 : bytes[k] \in WhitespaceTokens
          /\ \A k \in first..last : bytes[k] \in WordTokens
          /\ \A k \in last + 1..j - 1 : bytes[k] \in WhitespaceTokens

PlaceholderName(bytes, i, j) ==
    Concat(SelectSeq(SubSeq(bytes, i + 1, j - 1), LAMBDA token : token \in WordTokens))

\* what stands in the output for position i of the input
OutputFor(bytes, i, context) ==
    IF \E j \in i + 1..Len(bytes) : IsPlaceholder(bytes, i, j)
    THEN LET j == CHOOSE j \in i + 1..Len(bytes) : IsPlaceholder(bytes, i, j)
             name == PlaceholderName(bytes, i, j)
         IN  IF name \in DOMAIN context THEN as_bytes(context[name]) ELSE <<>>
    ELSE IF \E a \in 1..i - 1 : \E b \in i..Len(bytes) : IsPlaceholder(bytes, a, b)
    THEN <<>>
    ELSE <<bytes[i]>>

RECURSIVE OutputFrom(_, _, _)
OutputFrom(bytes, i, context) ==
    IF i > Len(bytes) THEN <<>>
    ELSE OutputFor(bytes, i, context) \o OutputFrom(bytes, i + 1, context)

\* the turn wrote the file without a merge
WroteVerbatim == applied # <<>> /\ LastTurn.did = "file"

\* C13: a file that is written without a merge holds the bytes of the entry
\* with every placeholder replaced by the value the context has for its
\* name, or by nothing when the context has none, and every other byte as it
\* was; and the turn for a regular file that is not merged fails only when
\* the file cannot be created or written.
C13_SubstitutionIsTotal ==
    /\ WroteVerbatim =>
          disk[LastTurn.filename]
              = RegularFile(OutputFrom(entry_bytes(LastEntry), 1, template_builder.context))
    /\ (/\ applied # <<>>
        /\ LastTurn.did = "error"
        /\ LastEntry.type \in {"Regular", "Continuous"})
       => \/ features_len(template_builder.features) > 0
             /\ \/ path_ends_with(join(apply_args.workspace, LastEntry.path), dc_filename1)
                \/ path_ends_with(join(apply_args.workspace, LastEntry.path), dc_filename2)
          \/ LastTurn.failed_in = "write_all"
          \/ /\ LastTurn.failed_in = "File::create"
             /\ \/ ~IsDir(disk, Parent(LastTurn.filename))
                \/ IsDir(disk, LastTurn.filename)

\* "Hello ${templateOption: name }" is written as "Hello " when the context
\* has no name, and the call returns Ok
C13_Witness ==
    /\ WroteVerbatim
    /\ entry_bytes(LastEntry) = HelloBytes
    /\ "name" \notin DOMAIN template_builder.context
    /\ disk[LastTurn.filename] = RegularFile(<<"Hello", " ">>)
    /\ apply_result = Ok(TRUE)

\* the path of the entry ends with a name of a file of the template itself
EndsWithSkippedName(entry) ==
    /\ entry.path # <<>>
    /\ Components(entry.path)[Len(entry.path)]
           \in {<<"NOTES.md">>, <<"README.md">>, <<"devcontainer-template.json">>}

\* the entry the loop takes next
NextEntry == Entries[Len(applied) + 1]

\* the turn for an entry with such a path leaves the file system as it is,
\* and the loop goes on
SkippedEntryWritesNothing ==
    (Len(applied') = Len(applied) + 1 /\ EndsWithSkippedName(NextEntry))
        => (disk' = disk /\ apply_result' = Idle /\ applied'[Len(applied')].did = "skip")

\* once the call has returned Ok, every directory and every regular file
\* whose path does not end with one of the names has its output
OtherEntriesAreWritten ==
    (apply_result = Ok(TRUE)) =>
        \A i \in 1..Len(Entries) :
            IF EndsWithSkippedName(Entries[i]) THEN applied[i].did = "skip"
            ELSE /\ Entries[i].type = "Directory" =>
                      /\ applied[i].did = "dir"
                      /\ IsDir(disk, join(apply_args.workspace, Entries[i].path))
                 /\ Entries[i].type \in {"Regular", "Continuous"} =>
                      /\ applied[i].did \in {"file", "merge"}
                      /\ applied[i].filename
                             \in {join(apply_args.workspace, Entries[i].path),
                                  join(apply_args.workspace, dc_filename2)}
                      /\ applied[i].filename \in DOMAIN disk
                      /\ disk[applied[i].filename].kind = "file"

\* C14: nothing is created or written for an entry, file or directory at any
\* depth, whose path ends with the component NOTES.md, README.md or
\* devcontainer-template.json; every other directory and regular file of an
\* archive for which the call returns Ok has its output in the workspace.
C14_TemplateFilesAreSkipped ==
    [][SkippedEntryWritesNothing]_vars /\ []OtherEntriesAreWritten

\* docs/README.md and the directory NOTES.md/ leave nothing behind, and the
\* file xREADME.md, whose name is another one, is written
C14_Witness ==
    /\ apply_result = Ok(TRUE)
    /\ Len(applied) = 3
    /\ Entries[1].path = <<<<"docs">>, <<"README.md">>>>
    /\ Entries[2] = DirectoryEntry(<<<<"NOTES.md", "/">>>>)
    /\ DOMAIN disk = {Workspace, join(Workspace, <<<<"x", "README.md">>>>)}

\* the turns that wrote a file
TurnsThatWrote == TurnsThat("file") \cup TurnsThat("merge")

\* the entry is the primary configuration file: its path in the archive is
\* .devcontainer/devcontainer.json or .devcontainer.json
IsPrimaryConfiguration(entry) == Components(entry.path) \in {dc_filename1, dc_filename2}

\* the template is of type image and its file count is unknown or at most 4
ImageOfFewFiles(config) ==
    /\ config.some
    /\ config.val.type = Some("image")
    /\ (config.val.file_count.some => config.val.file_count.val <= 4)

\* C15: the primary configuration file is written to .devcontainer.json of
\* the workspace exactly when attempt_single_file is set and the template is
\* an image of unknown file count or of at most 4 files; in every other case
\* it is written to its own path, and every other file always is.  The code
\* also retargets files that are not the primary configuration file: those
\* whose path ends with one of its two names, such as
\* sub/.devcontainer/devcontainer.json.
C15_OnlyPrimaryIsRetargeted ==
    \A i \in TurnsThatWrote :
        applied[i].filename =
            IF /\ IsPrimaryConfiguration(Entries[i])
               /\ apply_args.attempt_single_file
               /\ ImageOfFewFiles(template_builder.config)
            THEN join(apply_args.workspace, dc_filename2)
            ELSE join(apply_args.workspace, Entries[i].path)

\* the files that the code takes for the configuration: those whose path in
\* the workspace ends with one of the two names
EndsWithConfigurationName(entry) ==
    \/ path_ends_with(join(apply_args.workspace, entry.path), dc_filename1)
    \/ path_ends_with(join(apply_args.workspace, entry.path), dc_filename2)

\* the last turn took a regular file that the code takes for the configuration
TookConfiguration ==
    /\ applied # <<>>
    /\ LastEntry.type \in {"Regular", "Continuous"}
    /\ ~EndsWithSkippedName(LastEntry)
    /\ EndsWithConfigurationName(LastEntry)

\* the configuration of the entry after the substitution, parsed
SourceConfiguration ==
    from_slice(OutputFrom(entry_bytes(LastEntry), 1, template_builder.context))

\* the file that the last turn wrote, parsed
WrittenConfiguration == from_slice(disk[LastTurn.filename].bytes)

\* the last turn failed in the file system: File::create could not make the
\* file, or the write failed
FileSystemFailed ==
    \/ LastTurn.failed_in = "write_all"
    \/ /\ LastTurn.failed_in = "File::create"
       /\ (~IsDir(disk, Parent(LastTurn.filename)) \/ IsDir(disk, LastTurn.filename))

\* the last turn had features to merge into a configuration that is an object
TookObjectToMerge ==
    /\ TookConfiguration
    /\ features_len(template_builder.features) > 0
    /\ SourceConfiguration.ok
    /\ SourceConfiguration.val.t = "object"

SourceHasFeaturesObject ==
    /\ "features" \in DOMAIN SourceConfiguration.val.v
    /\ SourceConfiguration.val.v["features"].t = "object"

\* C16: with accumulated features and a substituted configuration that is a
\* JSON object, the file is written, unless the file system fails, and its
\* `features` is an object: that of the source with every accumulated entry
\* added, the accumulated entry standing for an equal key, when the source has
\* an object there, and the accumulated entries alone when it has not.
C16_FeaturesAreExtended ==
    TookObjectToMerge =>
        IF LastTurn.did = "error" THEN FileSystemFailed
        ELSE /\ LastTurn.did = "merge"
             /\ WrittenConfiguration.ok
             /\ WrittenConfiguration.val.t = "object"
             /\ "features" \in DOMAIN WrittenConfiguration.val.v
             /\ WrittenConfiguration.val.v["features"].t = "object"
             /\ LET written == WrittenConfiguration.val.v["features"].v
                    accumulated == template_builder.features
                IN  IF SourceHasFeaturesObject
                    THEN LET source == SourceConfiguration.val.v["features"].v
                         IN  /\ DOMAIN written = DOMAIN source \cup DOMAIN accumulated
                             /\ \A key \in DOMAIN written :
                                   written[key] = IF key \in DOMAIN accumulated
                                                  THEN accumulated[key] ELSE source[key]
                    ELSE written = accumulated

\* the source has dind:3 and rust:1; dind:3 and ghcr.io/f/node:2 are
\* accumulated: the written object has the three, dind:3 as accumulated
C16_Witness ==
    /\ TookObjectToMerge
    /\ LastTurn.did = "merge"
    /\ SourceHasFeaturesObject
    /\ SourceConfiguration.val.v["features"].v
           = ("dind:3" :> JObj([installZsh |-> JBool(FALSE)])) @@ ("rust:1" :> JObj(EmptyMap))
    /\ WrittenConfiguration.val.v["features"].v
           = ("dind:3" :> JObj([installZsh |-> JBool(TRUE)]))
                 @@ ("ghcr.io/f/node:2" :> JObj([version |-> JStr("18")]))
                 @@ ("rust:1" :> JObj(EmptyMap))

\* C17: the merge keeps every top-level key of the substituted source other
\* than `features`, with an equal value, and adds no key but `features`.
C17_OtherKeysAreKept ==
    (TookObjectToMerge /\ LastTurn.did = "merge") =>
        /\ WrittenConfiguration.ok
        /\ WrittenConfiguration.val.t = "object"
        /\ DOMAIN WrittenConfiguration.val.v \ {"features"}
               = DOMAIN SourceConfiguration.val.v \ {"features"}
        /\ \A key \in DOMAIN SourceConfiguration.val.v \ {"features"} :
               WrittenConfiguration.val.v[key] = SourceConfiguration.val.v[key]

\* a source with a string under `features` and an array under `a`: the
\* written file has the array as it was
C17_Witness ==
    /\ TookObjectToMerge
    /\ LastTurn.did = "merge"
    /\ DOMAIN SourceConfiguration.val.v = {"a", "features"}
    /\ SourceConfiguration.val.v["features"] = JStr("x")
    /\ WrittenConfiguration.val.v["a"] = JArr(<<JNum(1), JObj([b |-> JNull])>>)
    /\ WrittenConfiguration.val.v["features"].t = "object"

TurnFails == Len(applied') = Len(applied) + 1 /\ applied'[Len(applied')].did = "error"

\* the call has returned, and nothing is done after that
NothingAfterReturn == apply_result # Idle => UNCHANGED <<disk, applied, apply_result>>

\* the turns before the next that made a directory or wrote a file
EarlierOutputs == {i \in 1..Len(applied) : applied[i].did \in {"dir", "file", "merge"}}

\* C19 as the claim has it: when the turn for an entry fails the call returns
\* an error, no later entry is taken, and every directory and file made for an
\* earlier entry is there as it was.  It does not hold of a file to which the
\* failing entry is written as well: File::create has truncated it when the
\* write fails.
C19_FailureKeepsEveryEarlierOutput ==
    [][/\ NothingAfterReturn
       /\ TurnFails =>
             /\ apply_result' # Idle /\ ~apply_result'.ok
             /\ \A i \in EarlierOutputs :
                   /\ applied[i].filename \in DOMAIN disk'
                   /\ disk'[applied[i].filename] = disk[applied[i].filename]]_vars

\* C19: when the turn for an entry fails the call returns an error, no later
\* entry is taken, and everything the file system had is still there:
\* every directory, and every file with the content it had, except the file
\* that the failing turn itself was writing.
C19_FailFastWithoutRollback ==
    [][/\ NothingAfterReturn
       /\ TurnFails =>
             /\ apply_result' # Idle /\ ~apply_result'.ok
             /\ \A path \in DOMAIN disk :
                   /\ path \in DOMAIN disk'
                   /\ disk'[path].kind = disk[path].kind
                   /\ (applied'[Len(applied')].failed_in = "write_all"
                       /\ path = applied'[Len(applied')].filename)
                      \/ disk'[path] = disk[path]]_vars

\* the directory of the first entry is there after the configuration of the
\* second could not be parsed, and the third entry was never taken
C19_Witness ==
    /\ apply_result = Err("Json")
    /\ Len(applied) = 2 /\ Len(Entries) = 3
    /\ applied[1].did = "dir"
    /\ IsDir(disk, join(Workspace, <<<<".devcontainer">>>>))
    /\ join(Workspace, <<<<"x", "README.md">>>>) \notin DOMAIN disk

\* the builder is that of the empty start point, with bookworm as the image
\* variant and no features
StartPointWithBookworm ==
    /\ apply_args # Idle
    /\ create_empty_start_point.ok
    /\ template_builder
           = [create_empty_start_point.val EXCEPT !.context = [imageVariant |-> "bookworm"]]

\* the archive of the builder has the three entries, and the last of them,
\* read as replace_config reads it, has the option imageVariant with the
\* default jammy
DecodesAsStartPoint ==
    /\ Len(Entries) = 3
    /\ Entries[1].type = "Directory" /\ Entries[1].path = <<<<".devcontainer", "/">>>>
    /\ Entries[2].type = "Regular" /\ Entries[2].path = DevcontainerJsonPath
    /\ Entries[3].type = "Regular" /\ Entries[3].path = <<<<"devcontainer-template.json">>>>
    /\ replace_config(template_builder).ok
    /\ LET options == replace_config(template_builder).val.config.val.options
       IN  /\ options.some
           /\ DOMAIN options.val = {"imageVariant"}
           /\ configured_default(options.val["imageVariant"]) = "jammy"

\* dot_devcontainer_json with bookworm in the place of the placeholder
BookwormBytes ==
    <<"{", "\n", "\t", "\"", "name", "\"", ":", " ", "\"", "tyedev default", "\"", ",",
      "\n", "\t", "\"", "image", "\"", ":", " ", "\"",
      "mcr.microsoft.com/devcontainers/base:", "bookworm", "\"", "\n", "}", "\n">>

\* nothing of the workspace is in the way of .devcontainer/devcontainer.json,
\* and no write has failed
NothingInTheWay ==
    /\ ~(join(apply_args.workspace, <<<<".devcontainer">>>>) \in DOMAIN disk
         /\ disk[join(apply_args.workspace, <<<<".devcontainer">>>>)].kind = "file")
    /\ ~IsDir(disk, join(apply_args.workspace, dc_filename1))
    /\ \A i \in 1..Len(applied) : applied[i].failed_in # "write_all"

\* the call has returned Ok and has left .devcontainer/devcontainer.json with
\* bookworm, and no devcontainer-template.json
MaterializedWithBookworm ==
    /\ apply_result = Ok(TRUE)
    /\ join(apply_args.workspace, dc_filename1) \in DOMAIN disk
    /\ disk[join(apply_args.workspace, dc_filename1)] = RegularFile(BookwormBytes)
    /\ \A path \in DOMAIN disk : ~path_ends_with(path, <<<<"devcontainer-template.json">>>>)

ManifestPool ==
    {ArchiveEntry(<<<<TemplateManifestName>>>>, ManifestJson.rust2),
     ArchiveEntry(<<<<"src">>, <<"plain">>, <<TemplateManifestName>>>>, ManifestJson.plain),
     ArchiveEntry(<<<<"my-", TemplateManifestName>>>>, ManifestJson.odd),
     ArchiveEntry(<<<<TemplateManifestName>>>>, FileBytes(<<"junk">>)),
     ArchiveEntry(<<<<TemplateManifestName, ".bak">>>>, ManifestJson.plain),
     ArchiveEntry(DevcontainerJsonPath, FileBytes(<<"plain">>)),
     DirectoryEntry(<<<<TemplateManifestName, "/">>>>),
     [path |-> <<>>, type |-> "Malformed", data |-> FileBytes(<<>>)]}

\* the references of the features whose manifest is pulled
ManifestFeatureRefs ==
    {GhcrRef("f/dind", None), GhcrRef("f/bare", None), GhcrRef("f/twice", None),
     GhcrRef("f/junk", None), GhcrRef("f/named", None), GhcrRef("f/torn", None),
     GhcrRef("f/none", None)}

\* a builder with the config of the index, or with none, over an archive of
\* every layout, and the feature whose manifest is asked for
InitManifest ==
    /\ IndexIdle /\ OptionIdle /\ ApplyIdle
    /\ args \in [feature_ref : ManifestFeatureRefs]
    /\ pc = At("replace_config", 0)
    /\ template_builder \in
           {TemplateBuilder(config, archive_bytes) :
                config \in {None, Some(ToTemplate(ManifestJson.old))},
                archive_bytes \in SeqsUpTo(ManifestPool, MaxArchiveEntries)}
    /\ prompts = 0
    /\ call = Idle
    /\ init_result = Idle

\* init.rs:354-380  self.replace_config(): the builder is changed only by
\* self.config.replace(config), on the way to Ok(())
ManifestReplaceConfig ==
    /\ pc = At("replace_config", 0)
    /\ LET replaced == replace_config(template_builder)
       IN  /\ template_builder' = IF replaced.ok THEN replaced.val ELSE template_builder
           /\ init_result' = IF replaced.ok THEN Ok(TRUE) ELSE Err(replaced.kind)
           /\ call' = Call("TemplateBuilder::replace_config", replaced.ok, None, EmptyMap)
    /\ pc' = At("pull_feature_configuration", 0)
    /\ UNCHANGED <<args, prompts, index_vars, option_vars, apply_vars>>

\* init.rs:62-89  pull_feature_configuration(&feature_ref)
ManifestPullFeatureConfiguration ==
    /\ pc = At("pull_feature_configuration", 0)
    /\ LET pulled == pull_feature_configuration(args.feature_ref)
       IN  /\ init_result' = IF pulled.ok THEN Ok(TRUE) ELSE Err(pulled.kind)
           /\ call' = Call("pull_feature_configuration", pulled.ok,
                           IF pulled.ok THEN Some(pulled.val) ELSE None, EmptyMap)
    /\ pc' = At("done", 0)
    /\ UNCHANGED <<args, prompts, template_builder, index_vars, option_vars, apply_vars>>

NextManifest == ManifestReplaceConfig \/ ManifestPullFeatureConfiguration

SpecManifest == InitManifest /\ [][NextManifest]_vars

\* the places of the entries whose path, as a string, ends with the name
Matching(entries, name) ==
    {i \in DOMAIN entries :
         /\ entries[i].type # "Malformed"
         /\ entries[i].path # <<>>
         /\ Last(Last(entries[i].path)) = name}

FirstMatching(entries, name) ==
    CHOOSE i \in Matching(entries, name) : \A j \in Matching(entries, name) : i <= j

\* every record of the archive up to the place can be read
ReadableUpTo(entries, last) ==
    \A i \in DOMAIN entries : i <= last => entries[i].type # "Malformed"

\* what the search for the manifest has to come to: NotFound without an entry
\* of that name, and otherwise the decoding of the first entry of that name
ManifestOutcome(entries, name, decodes) ==
    IF Matching(entries, name) = {}
    THEN IF ReadableUpTo(entries, Len(entries)) THEN "NotFound" ELSE "Io"
    ELSE IF ~ReadableUpTo(entries, FirstMatching(entries, name)) THEN "Io"
    ELSE IF decodes[FirstMatching(entries, name)] THEN "Decoded" ELSE "Json"

ReplaceConfigStep ==
    LET entries == archive_entries(template_builder.archive_bytes)
        outcome == ManifestOutcome(entries, TemplateManifestName,
                                   [i \in DOMAIN entries |-> IsTemplate(entries[i].data)])
    IN  pc = At("replace_config", 0) /\ pc' # pc =>
            IF outcome = "Decoded"
            THEN /\ init_result' = Ok(TRUE)
                 /\ template_builder' =
                        [template_builder EXCEPT !.config =
                            Some(ToTemplate(
                                entries[FirstMatching(entries, TemplateManifestName)].data))]
            ELSE /\ init_result' = Err(outcome)
                 /\ template_builder' = template_builder

FeatureConfigurationPulled ==
    call # Idle /\ call.op = "pull_feature_configuration"
    /\ id(args.feature_ref) \in DOMAIN Archives =>
        LET entries == archive_entries(Archives[id(args.feature_ref)])
            outcome == ManifestOutcome(entries, FeatureManifestName,
                                       [i \in DOMAIN entries |-> IsFeature(entries[i].data)])
        IN  IF outcome = "Decoded"
            THEN /\ init_result = Ok(TRUE)
                 /\ call.feature =
                        Some(ToFeature(entries[FirstMatching(entries, FeatureManifestName)].data))
            ELSE init_result = Err(outcome)

\* C21: the manifest of an archive is the first entry, in archive order, whose
\* path ends with the manifest name, and that entry is the one decoded; when
\* no path ends with it the fetch fails with NotFound: replace_config then
\* leaves the config of the builder as it was, and so does
\* pull_feature_configuration fail for devcontainer-feature.json.
C21_ManifestIsFirstMatchOrNotFound ==
    [][ReplaceConfigStep]_vars /\ []FeatureConfigurationPulled

\* the archive of the feature has no devcontainer-feature.json and the fetch
\* has failed with NotFound, after replace_config has decoded the first of the
\* two manifests of the archive of the template
C21_Witness ==
    /\ pc = At("done", 0)
    /\ call = Call("pull_feature_configuration", FALSE, None, EmptyMap)
    /\ args = [feature_ref |-> GhcrRef("f/bare", None)]
    /\ init_result = Err("NotFound")
    /\ Matching(template_builder.archive_bytes, TemplateManifestName) = {1, 2}
    /\ \A i \in {1, 2} : IsTemplate(template_builder.archive_bytes[i].data)
    /\ ToTemplate(template_builder.archive_bytes[1].data).id
           # ToTemplate(template_builder.archive_bytes[2].data).id
    /\ template_builder.config = Some(ToTemplate(template_builder.archive_bytes[1].data))

\* C22: apply_context_and_features only reads the session state: in every
\* step of the call, whatever the archive, the flag and the outcome of the
\* step, the builder (its context, its accumulated features, its config and
\* its archive bytes) is after the step what it was before it.
C22_MaterializationKeepsTheSession ==
    [][apply_args # Idle =>
           /\ template_builder'.context = template_builder.context
           /\ template_builder'.features = template_builder.features
           /\ template_builder'.config = template_builder.config
           /\ template_builder'.archive_bytes = template_builder.archive_bytes]_vars

\* a call with a context and accumulated features has merged them into a
\* file and has returned Ok
C22_Witness ==
    /\ apply_result # Idle
    /\ template_builder.context # EmptyMap
    /\ template_builder.features # EmptyMap
    /\ TurnsThat("merge") # {}
    /\ Len(applied) = Len(Entries)
    /\ apply_result = Ok(TRUE)

\* the loop takes a directory entry whose path does not end with a skipped
\* name
DirectoryTurn ==
    /\ Len(applied') = Len(applied) + 1
    /\ NextEntry.type = "Directory"
    /\ ~EndsWithSkippedName(NextEntry)

\* the turn for a directory that is there succeeds and changes nothing; a
\* turn that succeeds leaves the directory and every directory above it, and
\* nothing else is changed; the same entry taken once more succeeds and
\* changes nothing
DirectoryIsMadeOnce ==
    LET filename == join(apply_args.workspace, NextEntry.path)
    IN  DirectoryTurn =>
            /\ IsDir(disk, filename) => (apply_result' = Idle /\ disk' = disk)
            /\ apply_result' = Idle =>
                  /\ DOMAIN disk' = DOMAIN disk \cup Prefixes(filename)
                  /\ \A p \in Prefixes(filename) : IsDir(disk', p)
                  /\ \A p \in DOMAIN disk : disk'[p] = disk[p]
                  /\ \A write_fails \in BOOLEAN :
                        LET again == apply_entry(template_builder,
                                                 apply_args.attempt_single_file,
                                                 apply_args.workspace, disk', NextEntry,
                                                 write_fails)
                        IN  again.ok /\ again.disk = disk'

\* C23: the turn for a directory entry whose workspace-joined path is a
\* directory already succeeds and changes nothing; the directories that are
\* missing above it are created with it; and the same directory entry taken
\* twice leaves the workspace that taking it once leaves.
C23_DirectoryCreationIsIdempotent == [][DirectoryIsMadeOnce]_vars

\* the archive has the directory a/b/ twice and no entry for a/: the first
\* turn has made a and a/b in a workspace that had neither, the second has
\* found them there, and the call has returned Ok
C23_Witness ==
    /\ apply_result = Ok(TRUE)
    /\ Entries = <<DirectoryEntry(<<<<"a">>, <<"b", "/">>>>),
                   DirectoryEntry(<<<<"a">>, <<"b", "/">>>>)>>
    /\ applied[1].did = "dir" /\ applied[2].did = "dir"
    /\ DOMAIN disk = Prefixes(join(apply_args.workspace, <<<<"a">>, <<"b">>>>))
    /\ \A p \in DOMAIN disk : disk[p] = Dir

(***************************************************************************)
(* init: the call of apply_context_and_features that ends it               *)
(***************************************************************************)
\* the workspace before init: the output of an earlier run is there
WorkspaceBefore ==
    (join(Workspace, dc_filename1) :> RegularFile(OldBytes))
        @@ (join(Workspace, <<<<".devcontainer">>>>) :> Dir)
        @@ (join(Workspace, dc_filename2) :> RegularFile(OldBytes))
        @@ [p \in Prefixes(Workspace) |-> Dir]

InitInit ==
    /\ IndexIdle /\ OptionIdle
    /\ args \in [non_interactive : BOOLEAN,
                 include_deprecated : BOOLEAN,
                 template_id : {None} \cup {Some(r) : r \in TemplateRefs},
                 include_features :
                     {None} \cup {Some(q) : q \in SeqsUpTo(FeatureRefs, MaxIncludeFeatures)}]
    /\ pc = At("select_template", 0)
    /\ template_builder = Idle
    /\ prompts = 0
    /\ call = Call("init", TRUE, None, EmptyMap)
    /\ init_result = Idle
    /\ apply_args = Idle /\ applied = <<>> /\ apply_result = Idle
    /\ disk = WorkspaceBefore

\* init.rs:697  without --workspace-folder the current directory is asked
\* for, and `?` returns when there is none
CurrentDirFails ==
    /\ pc = At("select_template", 0)
    /\ Fails(template_builder, "Io", 0, call)

\* init.rs:474-542  the loop over the entries, to its end or to the first
\* turn that fails; fail_at is the turn whose write the file system refuses
RECURSIVE apply_entries(_, _, _, _, _, _, _)
apply_entries(builder, attempt_single_file, workspace, files, i, fail_at, turns) ==
    LET entries == archive_entries(builder.archive_bytes)
        after(turn) ==
            LET done == Append(turns, [did |-> turn.did, filename |-> turn.filename,
                                       failed_in |-> turn.failed_in])
            IN  IF ~turn.ok
                THEN [ok |-> FALSE, kind |-> turn.kind, disk |-> turn.disk,
                      applied |-> done]
                ELSE apply_entries(builder, attempt_single_file, workspace, turn.disk,
                                   i + 1, fail_at, done)
    IN  IF i > Len(entries)
        THEN [ok |-> TRUE, kind |-> "", disk |-> files, applied |-> turns]
        ELSE after(apply_entry(builder, attempt_single_file, workspace, files,
                               entries[i], i = fail_at))

\* init.rs:449-544
apply_context_and_features(builder, attempt_single_file, workspace, files, fail_at) ==
    apply_entries(builder, attempt_single_file, workspace, files, 1, fail_at, <<>>)

\* the turns of the loop that write a file: the turns at which a write can be
\* refused
WritingTurns(workspace, entries) ==
    {i \in DOMAIN entries :
         /\ entries[i].type \in {"Regular", "Continuous"}
         /\ ~\E j \in 1..Len(template_skip) :
                path_ends_with(join(workspace, entries[i].path), <<<<template_skip[j]>>>>)}

\* init.rs:808-811  the last statement of init; --attempt-single-file is read
\* nowhere before it.  fail_at = 0: the file system refuses no write
ApplyContextAndFeatures ==
    /\ pc.at = "apply"
    /\ \E attempt_single_file \in BOOLEAN,
          fail_at \in {0} \cup WritingTurns(Workspace,
                                            archive_entries(template_builder.archive_bytes)) :
          \E run \in {apply_context_and_features(template_builder, attempt_single_file,
                                                 Workspace, disk, fail_at)} :
              /\ apply_args' = ApplyArgs(attempt_single_file, Workspace)
              /\ disk' = run.disk
              /\ applied' = run.applied
              /\ apply_result' = IF run.ok THEN Ok(TRUE) ELSE Err(run.kind)
              /\ init_result' = IF run.ok THEN Ok(TRUE) ELSE Err(run.kind)
              /\ call' = Call("TemplateBuilder::apply_context_and_features", run.ok, None,
                              EmptyMap)
    /\ pc' = At("done", 0)
    /\ UNCHANGED <<args, template_builder, prompts, index_vars, option_vars>>

NextInit ==
    \/ CurrentDirFails
    \/ SelectTemplate
    \/ RefuseWithoutTemplate
    \/ ChooseStartPoint
    \/ ReplaceConfig
    \/ TemplateUseDefaultValues
    \/ TemplateUsePromptValues
    \/ IncludeFeatureUseDefaultValues
    \/ IncludeFeatureUsePromptValues
    \/ AddFeature
    \/ ApplyContextAndFeatures

SpecInit == InitInit /\ [][NextInit]_vars

\* the step of init that calls apply_context_and_features
CallsApply == apply_args = Idle /\ apply_args' # Idle

\* a step of init changes the workspace only by calling
\* apply_context_and_features, which it does after the template, its manifest,
\* its options and the features are all settled, and after which init does
\* nothing more
WritesOnlyInApply ==
    /\ disk' # disk => CallsApply
    /\ CallsApply =>
          /\ pc.at = "apply" /\ pc'.at = "done"
          /\ template_builder # Idle
          /\ init_result = Idle
          /\ call' = Call("TemplateBuilder::apply_context_and_features", init_result'.ok,
                          None, EmptyMap)
    /\ apply_args # Idle => UNCHANGED vars

\* an init that has returned without the call has returned an error and the
\* workspace is what it was; an init that returns Ok has made the call
EarlierFailureLeavesWorkspace ==
    pc.at = "done" =>
        /\ init_result # Idle
        /\ apply_args = Idle =>
              /\ ~init_result.ok
              /\ disk = WorkspaceBefore
              /\ applied = <<>>
        /\ apply_args # Idle => call.op = "TemplateBuilder::apply_context_and_features"

\* C24: init writes nothing to the workspace before the template is chosen,
\* its manifest loaded, its options resolved and the features accumulated:
\* apply_context_and_features is called once, as the last step, and an init
\* that fails before it (no --template-id without prompts, an archive that
\* cannot be fetched, a manifest that is not found, a prompt error, a feature
\* reference that is not valid) returns an error with the workspace untouched.
C24_WorkspaceWrittenLastOrNotAtAll ==
    [][WritesOnlyInApply]_vars /\ []EarlierFailureLeavesWorkspace

\* init has resolved an option at a prompt and has then failed at a feature
\* reference that cannot be parsed: the files of the earlier run are as they
\* were
C24_Witness ==
    /\ pc.at = "done"
    /\ init_result = Err("Parse")
    /\ call = Call("from_str", FALSE, None, EmptyMap)
    /\ template_builder # Idle
    /\ template_builder.context # EmptyMap
    /\ prompts > 2
    /\ apply_args = Idle
    /\ disk = WorkspaceBefore
    /\ disk[join(Workspace, dc_filename1)] = RegularFile(OldBytes)

\* the loop takes a regular file whose path does not end with a skipped name
RegularTurn ==
    /\ Len(applied') = Len(applied) + 1
    /\ NextEntry.type \in {"Regular", "Continuous"}
    /\ ~EndsWithSkippedName(NextEntry)

\* where the file of the entry is written
Destination(entry) ==
    IF /\ EndsWithConfigurationName(entry)
       /\ apply_args.attempt_single_file
       /\ ImageOfFewFiles(template_builder.config)
    THEN join(apply_args.workspace, dc_filename2)
    ELSE join(apply_args.workspace, entry.path)

\* the entry is a configuration that the merge path rejects before it writes:
\* there are features, and its substituted content does not parse
RejectedUnparsed(entry) ==
    /\ EndsWithConfigurationName(entry)
    /\ features_len(template_builder.features) > 0
    /\ ~from_slice(OutputFrom(entry_bytes(entry), 1, template_builder.context)).ok

\* the turn for a file whose destination has no parent directory
ParentIsMissing == RegularTurn /\ ~IsDir(disk, Parent(Destination(NextEntry)))

SingleFileRun ==
    /\ apply_args # Idle
    /\ apply_args.attempt_single_file
    /\ ImageOfFewFiles(template_builder.config)

\* in such a run the turn for a directory makes the directory of the entry,
\* the turn for the primary configuration file leaves the file
\* .devcontainer.json of the workspace, and no turn makes or changes
\* .devcontainer/devcontainer.json
RetargetsOnlyTheFile ==
    LET primary == join(apply_args.workspace, dc_filename1)
        single == join(apply_args.workspace, dc_filename2)
    IN  SingleFileRun =>
            /\ (DirectoryTurn /\ apply_result' = Idle)
                   => /\ IsDir(disk', join(apply_args.workspace, NextEntry.path))
                      /\ applied'[Len(applied')]
                             = [did |-> "dir",
                                filename |-> join(apply_args.workspace, NextEntry.path),
                                failed_in |-> ""]
            /\ (RegularTurn /\ IsPrimaryConfiguration(NextEntry) /\ apply_result' = Idle)
                   => /\ applied'[Len(applied')].filename = single
                      /\ single \in DOMAIN disk' /\ disk'[single].kind = "file"
            /\ (primary \in DOMAIN disk' <=> primary \in DOMAIN disk)
            /\ primary \in DOMAIN disk => disk'[primary] = disk[primary]

\* the synthetic start point, materialized in such a run, has left the
\* directory and the single file
StartPointInOneFile ==
    (SingleFileRun /\ template_builder.archive_bytes = EmptyStartPointEntries
     /\ apply_result = Ok(TRUE))
        => /\ IsDir(disk, join(apply_args.workspace, <<<<".devcontainer">>>>))
           /\ join(apply_args.workspace, dc_filename2) \in DOMAIN disk
           /\ disk[join(apply_args.workspace, dc_filename2)].kind = "file"
           /\ disk[join(apply_args.workspace, dc_filename2)].bytes # OldBytes
           /\ join(apply_args.workspace, dc_filename1) \in DOMAIN disk
                  => disk[join(apply_args.workspace, dc_filename1)] = RegularFile(OldBytes)

\* C26: with attemptSingleFile and an eligible template only the place of the
\* configuration file changes: directory entries are made as they always are,
\* the configuration is written to .devcontainer.json, and nothing is written
\* to .devcontainer/devcontainer.json; the synthetic start point leaves the
\* directory .devcontainer/ and the file .devcontainer.json.
C26_SingleFileKeepsDirectories ==
    [][RetargetsOnlyTheFile]_vars /\ []StartPointInOneFile

\* the synthetic start point has been materialized with attemptSingleFile in
\* an empty workspace: the directory and .devcontainer.json are all there is
C26_Witness ==
    /\ SingleFileRun
    /\ template_builder.archive_bytes = EmptyStartPointEntries
    /\ apply_result = Ok(TRUE)
    /\ apply_args.workspace = Workspace
    /\ DOMAIN disk = {Workspace, join(Workspace, <<<<".devcontainer">>>>),
                      join(Workspace, dc_filename2)}
    /\ disk[join(Workspace, <<<<".devcontainer">>>>)] = Dir
    /\ disk[join(Workspace, dc_filename2)].kind = "file"

\* the names of the placeholders of a file
NamesIn(bytes) ==
    {PlaceholderName(bytes, i, j) :
         <<i, j>> \in {ij \in (1..Len(bytes)) \X (1..Len(bytes)) :
                           IsPlaceholder(bytes, ij[1], ij[2])}}

\* two contexts have the same entries for the names of the file
AgreeOnNamesIn(bytes, context, other) ==
    \A name \in NamesIn(bytes) :
        /\ name \in DOMAIN context <=> name \in DOMAIN other
        /\ name \in DOMAIN context => context[name] = other[name]

\* contexts to compare with: the entries that the file names alone, the
\* context with one more entry, and the contexts of the runs
OtherContexts(bytes, context) ==
    {[name \in DOMAIN context \cap NamesIn(bytes) |-> context[name]],
     ("other" :> "${templateOption:name}") @@ context}
        \cup Contexts

\* part stands in whole, token for token
StandsIn(part, whole) ==
    \E k \in 0..Len(whole) - Len(part) : SubSeq(whole, k + 1, k + Len(part)) = part

\* C27: the substitution is one pass that is not repeated: the value of every
\* placeholder whose name the context has stands in the written file as it is
\* in the context, also when the value has a placeholder of its own whose
\* name the context has as well; and the written bytes are the same for every
\* context that has the same entries for the names in the file.
C27_SubstitutionIsOnePass ==
    WroteVerbatim =>
        LET bytes == entry_bytes(LastEntry)
            context == template_builder.context
            written == disk[LastTurn.filename].bytes
        IN  /\ \A name \in NamesIn(bytes) \cap DOMAIN context :
                  StandsIn(as_bytes(context[name]), written)
            /\ \A other \in OtherContexts(bytes, context) :
                  AgreeOnNamesIn(bytes, context, other) => replace_all(bytes, other) = written

\* the file is ${templateOption:name}, the context has ${templateOption:x}
\* for name and 1 for x, and the file written is ${templateOption:x}
C27_Witness ==
    /\ apply_result = Ok(TRUE)
    /\ WroteVerbatim
    /\ template_builder.context = [name |-> "${templateOption:x}", x |-> "1"]
    /\ entry_bytes(LastEntry) = <<PlaceholderOpen, "name", "}">>
    /\ disk[LastTurn.filename] = RegularFile(<<PlaceholderOpen, "x", "}">>)

\* the loop takes, with features to merge, a configuration whose substituted
\* content parses and is no object
NonObjectTurn ==
    LET parsed == from_slice(OutputFrom(entry_bytes(NextEntry), 1, template_builder.context))
    IN  /\ RegularTurn
        /\ EndsWithConfigurationName(NextEntry)
        /\ features_len(template_builder.features) > 0
        /\ parsed.ok
        /\ parsed.val.t # "object"

\* C28: with features to merge, a configuration that parses as
\* JSON-with-comments and whose top-level value is an array, a string, a
\* number or null makes the call return an InvalidData error before the file
\* is created or truncated: the file system, the destination included, is
\* after the turn what it was before.
C28_NonObjectIsRejectedBeforeTheWrite ==
    [][NonObjectTurn =>
           /\ apply_result' = Err("InvalidData")
           /\ applied'[Len(applied')]
                  = [did |-> "error", filename |-> Destination(NextEntry),
                     failed_in |-> "as_object_mut"]
           /\ disk' = disk]_vars

\* the configuration [1, 2] was to be merged into .devcontainer.json, where
\* the file of an earlier run is: the call has returned InvalidData and the
\* file has its old bytes
C28_Witness ==
    /\ apply_result = Err("InvalidData")
    /\ LastTurn.failed_in = "as_object_mut"
    /\ entry_bytes(LastEntry) = <<"[", "1", ",", " ", "2", "]">>
    /\ apply_args.attempt_single_file
    /\ LastTurn.filename = join(apply_args.workspace, dc_filename2)
    /\ LastTurn.filename \in DOMAIN disk
    /\ disk[LastTurn.filename] = RegularFile(OldBytes)

\* the step of init that follows TemplateBuilder::new: the config is kept or
\* replaced, and the options are resolved after it
SettlesConfig ==
    /\ pc.at = "replace_config"
    /\ pc' # pc
    /\ call.op = "TemplateBuilder::new"

\* the entry of the index for the id of the chosen reference
IndexEntry == get_template(InitIndex, id(call.template_ref))

\* the config is that of the index entry when there is one and the tag of the
\* reference is latest, and the decoded manifest of the archive otherwise; in
\* both cases no option is resolved yet
ConfigFromIndexIffLatest ==
    LET entries == archive_entries(template_builder.archive_bytes)
        outcome == ManifestOutcome(entries, TemplateManifestName,
                                   [i \in DOMAIN entries |-> IsTemplate(entries[i].data)])
    IN  SettlesConfig =>
            /\ template_builder'.context = EmptyMap
            /\ IF IndexEntry.some /\ tag_name(call.template_ref) = "latest"
               THEN /\ pc'.at = "resolve_options"
                    /\ template_builder'.config = IndexEntry
               ELSE IF outcome = "Decoded"
               THEN /\ pc'.at = "resolve_options"
                    /\ template_builder'.config =
                           Some(ToTemplate(
                               entries[FirstMatching(entries, TemplateManifestName)].data))
               ELSE /\ pc'.at = "done"
                    /\ init_result' = Err(outcome)

\* C29: the options of the template are those of the index entry exactly
\* when the index has an entry for the id of the reference and the tag of the
\* reference is latest, written or left out; with another tag, or without an
\* entry, the config is the devcontainer-template.json decoded from the
\* archive, before any option is resolved.  The code looks the typed text up
\* as it is, so a reference typed with a tag never has an entry.
C29_ConfigFromIndexIffLatest == [][ConfigFromIndexIffLatest]_vars

(***************************************************************************)
(* SpecOption: the prompt for a DevOption                                  *)
(***************************************************************************)
\* init.rs:168-216  DevOptionPrompt::display_prompt for the option, with
\* every answer the prompt can give
DisplayPrompt ==
    /\ dev_option # Idle
    /\ call = Idle
    /\ \E out \in display_prompt(dev_option) :
          /\ prompts' = prompts + out.shown
          /\ init_result' = IF out.ok THEN Ok(out.val) ELSE Err(out.kind)
          /\ call' = Call("DevOptionPrompt::display_prompt", out.ok, None, EmptyMap)
    /\ UNCHANGED <<index_vars, option_vars, args, pc, template_builder, apply_vars>>

NextOption == ConfiguredDefault \/ DisplayPrompt

SpecOption == InitOption /\ [][NextOption]_vars

\* the option is a Boolean whose configured default is not true or false
BadBooleanDefault ==
    /\ dev_option.kind = "Boolean"
    /\ dev_option.default.t = "String"
    /\ dev_option.default.v \notin {"true", "false"}

\* a template and a feature that declare the option, as the only one
TemplateWith(option) ==
    TemplateBuilder(Some([ToTemplate(ManifestJson.odd) EXCEPT
                              !.options = Some([legacy |-> option])]), <<>>)

FeatureWith(option) == [ToFeature(ManifestJson.dind) EXCEPT !.options = Some([legacy |-> option])]

\* C30: for a Boolean option whose configured_default() is not exactly
\* "true" or "false", display_prompt fails before a prompt is shown, and the
\* interactive resolution of a template or feature that declares it fails
\* with nothing recorded; the index parser accepts the option as it is, and
\* the resolution by defaults records the default and does not fail.  With
\* "true" or "false" the prompt is shown.
C30_BadBooleanDefaultFailsAtThePrompt ==
    /\ (dev_option # Idle /\ dev_option.kind = "Boolean" /\ call # Idle) =>
          IF BadBooleanDefault
          THEN /\ prompts = 0
               /\ ~call.ok
               /\ init_result = Err("ParseBool")
          ELSE /\ prompts = 1
               /\ init_result
                      \in {Err("Prompt"), Ok(PromptBoolean(TRUE)), Ok(PromptBoolean(FALSE))}
    /\ (dev_option # Idle /\ BadBooleanDefault) =>
          /\ \A out \in template_use_prompt_values(TemplateWith(dev_option)) :
                /\ ~out.ok /\ out.kind = "ParseBool" /\ out.shown = 0
                /\ out.val.context = EmptyMap
          /\ \A out \in features_use_prompt_values(EmptyMap, FeatureWith(dev_option)) :
                /\ ~out.ok /\ out.kind = "ParseBool" /\ out.shown = 0
                /\ out.features = EmptyMap
          /\ IsDevOption(BooleanOptionJson(JStr(dev_option.default.v)))
          /\ ToDevOption(BooleanOptionJson(JStr(dev_option.default.v))) = dev_option
          /\ template_use_default_values(TemplateWith(dev_option)).ok
          /\ template_use_default_values(TemplateWith(dev_option)).val.context
                 = [legacy |-> dev_option.default.v]
          /\ features_use_default_values(EmptyMap, FeatureWith(dev_option))
                 = (feature_key(FeatureWith(dev_option)) :> JObj(EmptyMap))

\* display_prompt has failed for a Boolean with the default "True", and no
\* prompt was shown
C30_Witness ==
    /\ dev_option = BooleanOption([t |-> "String", v |-> "True"])
    /\ call = Call("DevOptionPrompt::display_prompt", FALSE, None, EmptyMap)
    /\ init_result = Err("ParseBool")
    /\ prompts = 0

====
